---- MODULE Spec2Model ----
(***************************************************************************)
(* Wallet service (Code-Linx/wallet-service): the wallet use cases         *)
(* FundWallet, WithdrawFunds and TransferFunds running concurrently, one   *)
(* goroutine per HTTP request, against the MySQL store opened in           *)
(* pkg/database (gorm + InnoDB, default isolation REPEATABLE READ); with   *)
(* them CreateUser, RunReconciliation and GetTransactionHistory.           *)
(*                                                                         *)
(* Store semantics used by the model (what the repository calls rely on):  *)
(*  - a statement issued outside a transaction (uc.repos) reads the        *)
(*    latest committed rows;                                               *)
(*  - inside a transaction (txRepos) a plain SELECT is a non-locking       *)
(*    consistent read of the snapshot taken by the transaction's first     *)
(*    read; INSERT and UPDATE take exclusive record locks that are held    *)
(*    until COMMIT or ROLLBACK, and they work on the latest committed row; *)
(*  - an INSERT whose unique key (transactions.reference) is held by an    *)
(*    uncommitted INSERT of another transaction waits for it; if the key   *)
(*    is committed the INSERT fails with a duplicate-key error;            *)
(*  - a cycle of lock waits is broken by the store: one waiting statement  *)
(*    returns an error.                                                    *)
(***************************************************************************)
EXTENDS Integers, Sequences, FiniteSets, TLC

\* Total number of wallet calls issued in one behaviour.
MaxCalls == 2

\* Width of the balance and amount integers.  The code uses int64; TLC's
\* integers are 32 bits wide, so the model keeps two's-complement wrap-around
\* at a scaled-down width.
IntBits == 8

Pow2(n) == 2 ^ n
MaxInt == Pow2(IntBits - 1) - 1
MinInt == 0 - Pow2(IntBits - 1)

\* Go's int64 addition and subtraction: the result wraps around.
WrapInt(x) == ((x - MinInt) % Pow2(IntBits)) + MinInt
AddInt(a, b) == WrapInt(a + b)
SubInt(a, b) == WrapInt(a - b)
\* Go's int multiplication (int is as wide as int64 on the build's platform).
MulInt(a, b) == WrapInt(a * b)

\* Concurrent request goroutines.
Callers == {"g1", "g2"}
\* Concurrent request goroutines of CreateUser.
Creators == {"k1", "k2"}
\* User ids a request can name; "C" has no row until CreateUser("C").
UserIds == {"A", "B", "C"}
Refs == {"r1", "r2"}
Amounts == {0, 3, 7}

Nil == "nil"

VARIABLES
    users,      \* committed rows of table users (set of ids)
    wallets,    \* committed rows of table wallets: user id -> balance
    ledger,     \* committed rows of table transactions
    call,       \* per goroutine: the call it runs, its position and result
    issued,     \* number of wallet calls issued so far
    refsIssued, \* references of the calls issued so far
    opsIssued,  \* operations of the calls issued so far
    reader,     \* the goroutine of a reconciliation or history request
    creator     \* per goroutine: the CreateUser call it runs

vars ==
    <<users, wallets, ledger, call, issued, refsIssued, opsIssued, reader,
      creator>>

(***************************************************************************)
(* Rows and call records                                                   *)
(***************************************************************************)

\* Mutant: the use cases leave Status empty, so the row gets the column
\* default 'pending'.
EntryDefaultStatus(id, user, type, amount, ref, from, to, at) ==
    [id |-> id, user |-> user, type |-> type, amount |-> amount,
     status |-> "pending", ref |-> ref, from |-> from, to |-> to, at |-> at]

\* models.Transaction: a row of table transactions.  from/to are the
\* nullable FromUserID/ToUserID; id stands for the uuid given by BeforeCreate
\* (here the serial number of the call that inserted the row); at is
\* CreatedAt, the instant of the INSERT on the clock Now.
Entry(id, user, type, amount, ref, from, to, at) ==
    [id |-> id, user |-> user, type |-> type, amount |-> amount,
     status |-> "completed", ref |-> ref, from |-> from, to |-> to, at |-> at]

NilTxn == Entry(0, Nil, Nil, 0, Nil, Nil, Nil, 0)

IdleCall ==
    [pc |-> "idle", op |-> Nil, user |-> Nil, to |-> Nil, amount |-> 0,
     ref |-> Nil, id |-> 0, prior |-> NilTxn, fromBal |-> 0, toBal |-> 0,
     at |-> 0, err |-> Nil, txn |-> NilTxn]

\* A call that has passed the argument checks and is about to query the store.
\* prior is an observation the code does not read: the committed row that
\* carried the call's reference when the call was issued (NilTxn if none).
NewCall(op, u, v, amount, ref, id, prior) ==
    [pc |-> "get_by_reference", op |-> op, user |-> u, to |-> v,
     amount |-> amount, ref |-> ref, id |-> id, prior |-> prior,
     fromBal |-> 0, toBal |-> 0, at |-> 0, err |-> Nil, txn |-> NilTxn]

\* The reader goroutine before its first request.  snapshot is the slice that
\* GetAllWallets returned, todo the wallets the loop has still to visit,
\* results the slice built so far, skipped the wallets whose sum failed (each
\* is logged), err the error returned; user, page and pageSize are the
\* arguments of a history request, limit, offset, total and rows its locals.
\* drift is an observation the code does not keep: the accounts whose stored
\* balance differed from the sum of their entries in some committed state
\* since the reconciliation began.
NoWallets == [u \in {} |-> 0]

IdleReader ==
    [pc |-> "idle", op |-> Nil, snapshot |-> NoWallets, todo |-> {},
     results |-> {}, skipped |-> {}, err |-> Nil, user |-> Nil, page |-> 0,
     pageSize |-> 0, limit |-> 0, offset |-> 0, total |-> 0, rows |-> <<>>,
     drift |-> {}]

\* A goroutine of CreateUser before its first request.  A user is known by
\* the email (the id is a fresh uuid, the email is the unique key), so email
\* ranges over UserIds.  existed is an observation the code does not keep:
\* whether a committed user carried the email when the call was made.
IdleCreator == [pc |-> "idle", email |-> Nil, existed |-> FALSE, err |-> Nil]

\* return nil, err
Failed(c, err) ==
    [c EXCEPT !.pc = "done", !.err = err, !.txn = NilTxn,
              !.fromBal = 0, !.toBal = 0, !.at = 0]
\* Mutant: the struct returned lacks the id and the creation time that the
\* insert filled in.
ReturnedWithoutId(c, txn) ==
    [c EXCEPT !.pc = "done", !.err = Nil,
              !.txn = [txn EXCEPT !.id = 0, !.at = 0],
              !.fromBal = 0, !.toBal = 0]

\* return txn, nil
Returned(c, txn) ==
    [c EXCEPT !.pc = "done", !.err = Nil, !.txn = txn,
              !.fromBal = 0, !.toBal = 0]

\* Mutant: the row of a transfer is built without its ToUserID.
NewEntryNoDestination(c) ==
    IF c.op = "fund"
    THEN Entry(c.id, c.user, "credit", c.amount, c.ref, Nil, Nil, c.at)
    ELSE IF c.op = "withdraw"
    THEN Entry(c.id, c.user, "debit", c.amount, c.ref, Nil, Nil, c.at)
    ELSE Entry(c.id, c.user, "transfer", c.amount, c.ref, c.user, Nil, c.at)

\* The row the call inserts.
NewEntry(c) ==
    IF c.op = "fund"
    THEN Entry(c.id, c.user, "credit", c.amount, c.ref, Nil, Nil, c.at)
    ELSE IF c.op = "withdraw"
    THEN Entry(c.id, c.user, "debit", c.amount, c.ref, Nil, Nil, c.at)
    ELSE Entry(c.id, c.user, "transfer", c.amount, c.ref, c.user, c.to, c.at)

(***************************************************************************)
(* Locks held by the open transaction of a goroutine.  They follow from    *)
(* the statements it has executed, that is from its position.              *)
(***************************************************************************)

\* The INSERT has run: the new row (and its unique key) is locked.
HasInserted(p) ==
    call[p].pc \in {"update_balance", "update_recipient", "commit"}

\* Mutant: the lock of an updated wallet row outlives the commit.
HoldsWalletAfterReturn(p, u) ==
    \/ call[p].pc \in {"update_recipient", "commit"} /\ call[p].user = u
    \/ call[p].pc = "commit" /\ call[p].op = "transfer" /\ call[p].to = u
    \/ call[p].pc = "done" /\ call[p].err = Nil /\ call[p].user = u
       /\ call[p].txn.id = call[p].id

\* The UPDATE of wallet row u has run: the row is locked.
HoldsWallet(p, u) ==
    \/ call[p].pc \in {"update_recipient", "commit"} /\ call[p].user = u
    \/ call[p].pc = "commit" /\ call[p].op = "transfer" /\ call[p].to = u

\* Mutant: an INSERT does not wait for an uncommitted row that carries the
\* same reference.
BlockersWalletOnly(p) ==
    {q \in Callers \ {p} :
        \/ call[p].pc = "update_balance" /\ HoldsWallet(q, call[p].user)
        \/ call[p].pc = "update_recipient" /\ HoldsWallet(q, call[p].to)}

\* The goroutines whose locks the next statement of p has to wait for.
Blockers(p) ==
    {q \in Callers \ {p} :
        \/ call[p].pc = "create_transaction" /\ HasInserted(q)
           /\ call[q].ref = call[p].ref
        \/ call[p].pc = "update_balance" /\ HoldsWallet(q, call[p].user)
        \/ call[p].pc = "update_recipient" /\ HoldsWallet(q, call[p].to)}

\* q is reachable from p along at most n lock waits.
RECURSIVE WaitsFor(_, _, _)
WaitsFor(p, q, n) ==
    IF n = 0 THEN FALSE
    ELSE \E m \in Blockers(p) : m = q \/ WaitsFor(m, q, n - 1)

InWaitCycle(p) == WaitsFor(p, p, Cardinality(Callers))

(***************************************************************************)
(* Initial state: the store after the sequential set-up                    *)
(*   CreateUser(A); CreateUser(B); FundWallet(A, 5, s1);                   *)
(*   FundWallet(B, 5, s2)                                                  *)
(* has returned, and no request in flight.                                 *)
(***************************************************************************)
SeedLedger ==
    {Entry(-1, "A", "credit", 5, "s1", Nil, Nil, 1),
     Entry(-2, "B", "credit", 5, "s2", Nil, Nil, 2)}

Init ==
    /\ users = {"A", "B"}
    /\ wallets = [u \in {"A", "B"} |-> 5]
    /\ ledger = SeedLedger
    /\ call = [p \in Callers |-> IdleCall]
    /\ issued = 0
    /\ refsIssued = {}
    /\ opsIssued = {}
    /\ reader = IdleReader
    /\ creator = [k \in Creators |-> IdleCreator]

(***************************************************************************)
(* Repository reads                                                        *)
(***************************************************************************)

\* Mutant: the look-up by reference never finds a row.
FindByReferenceNone(ref) == {}

\* transactionRepository.GetByReference: the committed rows with the
\* reference (at most one, the column is unique); empty is ErrRecordNotFound.
FindByReference(ref) == {e \in ledger : e.ref = ref}

\* Mutant: the reference column carries no unique index.
DuplicateKeyNotEnforced(ref) == FALSE

\* The unique index on transactions.reference (gorm:"unique"): an INSERT of
\* a reference that a committed row carries fails.
DuplicateKey(ref) == \E e \in ledger : e.ref = ref

\* The row a call issued now with this reference would find committed.
PriorEntry(ref) ==
    IF \E e \in ledger : e.ref = ref
    THEN CHOOSE e \in ledger : e.ref = ref
    ELSE NilTxn

\* Mutant: the user look-up finds a row for every id.
UserExistsAlways(u) == TRUE

\* userRepository.GetByID finds a row.
UserExists(u) == u \in users

\* walletRepository.GetByUserID finds a row.
WalletExists(u) == u \in DOMAIN wallets

\* Mutant: only a transfer checks the funds.
InsufficientFundsTransferOnly(c) ==
    c.op = "transfer" /\ wallets[c.user] < c.amount

\* Mutant: only a withdrawal checks the funds.
InsufficientFundsWithdrawOnly(c) ==
    c.op = "withdraw" /\ wallets[c.user] < c.amount

\* "if wallet.Balance < amount" of WithdrawFunds and TransferFunds.
InsufficientFunds(c) == c.op # "fund" /\ wallets[c.user] < c.amount

\* newBalance / newFromBalance: what the call writes to its own wallet row.
NewFromBalance(c) ==
    IF c.op = "fund" THEN AddInt(c.fromBal, c.amount)
    ELSE SubInt(c.fromBal, c.amount)

\* newToBalance: what a transfer writes to the recipient's wallet row.
NewToBalance(c) == AddInt(c.toBal, c.amount)

\* Mutant: the recipient's UpdateBalance is not part of the transaction that
\* commits, so a transfer only debits its sender.
CommittedWalletsSenderOnly(c) ==
    [wallets EXCEPT ![c.user] = NewFromBalance(c)]

\* Mutant: UpdateBalance without its WHERE clause writes every wallet row.
CommittedWalletsEveryRow(c) == [u \in DOMAIN wallets |-> NewFromBalance(c)]

\* The wallet rows after the transaction of call c has committed.
CommittedWallets(c) ==
    IF c.op = "transfer"
    THEN [wallets EXCEPT ![c.user] = NewFromBalance(c), ![c.to] = NewToBalance(c)]
    ELSE [wallets EXCEPT ![c.user] = NewFromBalance(c)]

\* Mutant: the commit replaces the owner's earlier rows by the new one.
CommittedLedgerReplacing(c) ==
    {e \in ledger : e.user # c.user} \cup {NewEntry(c)}

\* The transactions rows after the transaction of call c has committed.
CommittedLedger(c) == ledger \cup {NewEntry(c)}

\* Mutant: an error path that neither rolls back nor returns; the
\* transaction stays open at the failed statement.
RollbackMissing(c, err) == c

\* tx.Rollback(); return nil, err: the staged rows are dropped and the locks
\* released (both follow from the position, which leaves the transaction).
Rollback(c, err) == Failed(c, err)

(***************************************************************************)
(* Entry of the three use cases: the argument checks made before any store *)
(* access.                                                                 *)
(***************************************************************************)

Issue(p, op, ref, c) ==
    /\ call[p].pc \in {"idle", "done"}
    /\ call' = [call EXCEPT ![p] = c]
    /\ issued' = issued + 1
    /\ refsIssued' = refsIssued \cup {ref}
    /\ opsIssued' = opsIssued \cup {op}
    /\ UNCHANGED <<users, wallets, ledger, reader, creator>>

\* Mutant: FundWallet without its amount check.
FundWalletNoAmountCheck(p, u, amount, ref) ==
    Issue(p, "fund", ref,
          NewCall("fund", u, Nil, amount, ref, issued + 1, PriorEntry(ref)))

\* Mutant: TransferFunds without the comparison of the two user ids.
TransferFundsNoSameUserCheck(p, u, v, amount, ref) ==
    LET c == NewCall("transfer", u, v, amount, ref, issued + 1, PriorEntry(ref)) IN
    Issue(p, "transfer", ref,
          IF amount <= 0 THEN Failed(c, "ErrInvalidAmount") ELSE c)

FundWallet(p, u, amount, ref) ==
    LET c == NewCall("fund", u, Nil, amount, ref, issued + 1, PriorEntry(ref)) IN
    Issue(p, "fund", ref,
          IF amount <= 0 THEN Failed(c, "ErrInvalidAmount") ELSE c)

\* Mutant: WithdrawFunds looks the user up before the idempotency check.
WithdrawFundsUserFirst(p, u, amount, ref) ==
    LET c == NewCall("withdraw", u, Nil, amount, ref, issued + 1, PriorEntry(ref)) IN
    Issue(p, "withdraw", ref,
          IF amount <= 0 THEN Failed(c, "ErrInvalidAmount")
          ELSE IF ~UserExists(u) THEN Failed(c, "ErrUserNotFound")
          ELSE c)

WithdrawFunds(p, u, amount, ref) ==
    LET c == NewCall("withdraw", u, Nil, amount, ref, issued + 1, PriorEntry(ref)) IN
    Issue(p, "withdraw", ref,
          IF amount <= 0 THEN Failed(c, "ErrInvalidAmount") ELSE c)

TransferFunds(p, u, v, amount, ref) ==
    LET c == NewCall("transfer", u, v, amount, ref, issued + 1, PriorEntry(ref)) IN
    Issue(p, "transfer", ref,
          IF amount <= 0 THEN Failed(c, "ErrInvalidAmount")
          ELSE IF u = v THEN Failed(c, "ErrSameUser")
          ELSE c)

(***************************************************************************)
(* The steps of a call, one per store statement.                           *)
(***************************************************************************)

Step(p, c) ==
    /\ call' = [call EXCEPT ![p] = c]
    /\ UNCHANGED <<users, wallets, ledger, issued, refsIssued, opsIssued,
                   reader, creator>>

\* The kind of entry that the use case of call c writes.
KindOf(c) ==
    IF c.op = "fund" THEN "credit"
    ELSE IF c.op = "withdraw" THEN "debit" ELSE "transfer"

\* Mutant: the row found under the reference is returned only when its kind,
\* amount and owner are those of the request.
GetByReferenceComparing(p) ==
    LET c == call[p]
        found == FindByReference(c.ref)
        e == CHOOSE e \in found : TRUE
    IN /\ c.pc = "get_by_reference"
       /\ Step(p, IF found = {} THEN [c EXCEPT !.pc = "get_user"]
                  ELSE IF e.type = KindOf(c) /\ e.amount = c.amount
                          /\ e.user = c.user
                  THEN Returned(c, e)
                  ELSE Failed(c, "ErrDuplicateReference"))

\* existingTxn, err := uc.repos.Transaction.GetByReference(reference)
GetByReference(p) ==
    LET c == call[p] IN
    /\ c.pc = "get_by_reference"
    /\ Step(p, IF FindByReference(c.ref) # {}
               THEN Returned(c, CHOOSE e \in FindByReference(c.ref) : TRUE)
               ELSE [c EXCEPT !.pc = "get_user"])

\* user / fromUser, err := uc.repos.User.GetByID(userID)
GetUserByID(p) ==
    LET c == call[p] IN
    /\ c.pc = "get_user"
    /\ Step(p, IF ~UserExists(c.user)
               THEN Failed(c, IF c.op = "transfer" THEN "sender not found"
                              ELSE "ErrUserNotFound")
               ELSE [c EXCEPT !.pc = IF c.op = "transfer" THEN "get_recipient"
                                     ELSE "get_wallet"])

\* toUser, err := uc.repos.User.GetByID(toUserID)
GetRecipientByID(p) ==
    LET c == call[p] IN
    /\ c.pc = "get_recipient"
    /\ Step(p, IF ~UserExists(c.to)
               THEN Failed(c, "recipient not found")
               ELSE [c EXCEPT !.pc = "get_wallet"])

\* Mutant: a call refused for insufficient funds leaves a failed entry that
\* carries its reference.
GetWalletRecordingFailure(p) ==
    LET c == call[p] IN
    /\ c.pc = "get_wallet"
    /\ call' = [call EXCEPT ![p] =
                   IF ~WalletExists(c.user)
                   THEN Rollback(c, "failed to get wallet")
                   ELSE IF InsufficientFunds(c)
                   THEN Rollback(c, "ErrInsufficientFunds")
                   ELSE IF c.op = "transfer" /\ ~WalletExists(c.to)
                   THEN Rollback(c, "failed to get recipient wallet")
                   ELSE [c EXCEPT !.pc = "create_transaction",
                                  !.fromBal = wallets[c.user],
                                  !.toBal = IF c.op = "transfer"
                                            THEN wallets[c.to] ELSE 0]]
    /\ ledger' = IF WalletExists(c.user) /\ InsufficientFunds(c)
                 THEN ledger \cup {[NewEntry(c) EXCEPT !.status = "failed"]}
                 ELSE ledger
    /\ UNCHANGED <<users, wallets, issued, refsIssued, opsIssued, reader,
                   creator>>

\* tx := BeginTransaction(); wallet, err := txRepos.Wallet.GetByUserID(...);
\* the funds check; for a transfer the second GetByUserID, which reads the
\* same snapshot as the first (REPEATABLE READ), so both values are those of
\* this instant.
GetWallet(p) ==
    LET c == call[p] IN
    /\ c.pc = "get_wallet"
    /\ Step(p, IF ~WalletExists(c.user)
               THEN Rollback(c, "failed to get wallet")
               ELSE IF InsufficientFunds(c)
               THEN Rollback(c, "ErrInsufficientFunds")
               ELSE IF c.op = "transfer" /\ ~WalletExists(c.to)
               THEN Rollback(c, "failed to get recipient wallet")
               ELSE [c EXCEPT !.pc = "create_transaction",
                              !.fromBal = wallets[c.user],
                              !.toBal = IF c.op = "transfer" THEN wallets[c.to]
                                        ELSE 0])

\* The clock that stamps CreatedAt: later than the stamp of every row
\* inserted so far, committed or staged (two inserts never share a stamp).
Stamps ==
    {e.at : e \in ledger} \cup {call[q].at : q \in {r \in Callers : HasInserted(r)}}

Now == 1 + (CHOOSE m \in Stamps \cup {0} : \A n \in Stamps : n <= m)

\* txRepos.Transaction.Create(transaction): waits while another open
\* transaction holds the reference; a committed row with the reference makes
\* it fail (duplicate key), and the error is returned to the caller.
CreateTransaction(p) ==
    LET c == call[p] IN
    /\ c.pc = "create_transaction"
    /\ Blockers(p) = {}
    /\ Step(p, IF DuplicateKey(c.ref)
               THEN Rollback(c, "failed to create transaction: duplicate key")
               ELSE [c EXCEPT !.pc = "update_balance", !.at = Now])

\* txRepos.Wallet.UpdateBalance(userID / fromUserID, newBalance): waits for
\* the row lock, then stages the write.
UpdateBalance(p) ==
    LET c == call[p] IN
    /\ c.pc = "update_balance"
    /\ Blockers(p) = {}
    /\ Step(p, [c EXCEPT !.pc = IF c.op = "transfer" THEN "update_recipient"
                                ELSE "commit"])

\* txRepos.Wallet.UpdateBalance(toUserID, newToBalance) of a transfer.
UpdateRecipientBalance(p) ==
    LET c == call[p] IN
    /\ c.pc = "update_recipient"
    /\ Blockers(p) = {}
    /\ Step(p, [c EXCEPT !.pc = "commit"])

\* A statement waiting in a cycle of lock waits returns an error (the store
\* breaks the deadlock); the call rolls back and returns the error.
LockWaitError(p) ==
    LET c == call[p] IN
    /\ c.pc \in {"create_transaction", "update_balance", "update_recipient"}
    /\ InWaitCycle(p)
    /\ Step(p, Rollback(c, IF c.pc = "create_transaction"
                           THEN "failed to create transaction: lock wait"
                           ELSE "failed to update wallet balance: lock wait"))

\* The rows selected by the WHERE clause of GetUserTransactionSum.
SumRows(u) ==
    {e \in ledger : (e.user = u \/ e.from = u \/ e.to = u)
                     /\ e.status = "completed"}

\* Mutant: a transfer is counted for its user_id as well as for its
\* from_user_id, so the source is debited twice.
SumCaseOwnerToo(e, u) ==
    IF e.type = "credit" THEN e.amount
    ELSE IF e.type = "debit" /\ e.user = u THEN 0 - e.amount
    ELSE IF e.type = "transfer" /\ e.from = u THEN 0 - (e.amount + e.amount)
    ELSE IF e.type = "transfer" /\ e.to = u THEN e.amount
    ELSE 0

\* The CASE expression of GetUserTransactionSum for one selected row; the
\* first branch that matches gives the value.
SumCase(e, u) ==
    IF e.type = "credit" THEN e.amount
    ELSE IF e.type = "debit" /\ e.user = u THEN 0 - e.amount
    ELSE IF e.type = "transfer" /\ e.from = u THEN 0 - e.amount
    ELSE IF e.type = "transfer" /\ e.to = u THEN e.amount
    ELSE 0

RECURSIVE SumOver(_, _)
SumOver(S, u) ==
    IF S = {} THEN 0
    ELSE LET e == CHOOSE x \in S : TRUE IN SumCase(e, u) + SumOver(S \ {e}, u)

\* COALESCE(SUM(CASE ...), 0): the store adds bigint values exactly (the sum
\* is a decimal).
GetUserTransactionSum(u) == SumOver(SumRows(u), u)

\* The accounts whose stored balance is not the sum of their entries.
Drifted == {u \in DOMAIN wallets : wallets[u] # GetUserTransactionSum(u)}

\* tx.Commit(): the inserted row and the staged balances become visible
\* together and the locks are released; the call returns the row.  A
\* reconciliation that is running observes the accounts left drifted.
Commit(p) ==
    LET c == call[p] IN
    /\ c.pc = "commit"
    /\ ledger' = CommittedLedger(c)
    /\ wallets' = CommittedWallets(c)
    /\ call' = [call EXCEPT ![p] = Returned(c, NewEntry(c))]
    /\ reader' = IF reader.pc = "sum"
                 THEN [reader EXCEPT !.drift = @ \cup Drifted']
                 ELSE reader
    /\ UNCHANGED <<users, issued, refsIssued, opsIssued, creator>>

\* userUseCase.CreateUser for a new email: the user row and its wallet row
\* with balance 0, committed together.  An existing email returns
\* ErrUserAlreadyExists and changes nothing.
CreateUser(u) ==
    /\ users' = users \cup {u}
    /\ wallets' = IF u \in users THEN wallets
                  ELSE [w \in DOMAIN wallets \cup {u} |->
                           IF w = u THEN 0 ELSE wallets[w]]
    /\ UNCHANGED <<ledger, call, issued, refsIssued, opsIssued, reader, creator>>

\* A statement of the open transaction fails in the store (connection lost,
\* lock wait timeout, ...): the call rolls back and returns the error.  A
\* failed COMMIT leaves nothing committed.
StoreFail(p) ==
    LET c == call[p] IN
    /\ c.pc \in {"get_wallet", "create_transaction", "update_balance",
                 "update_recipient", "commit"}
    /\ Step(p, Rollback(c, "store error"))

(***************************************************************************)
(* userUseCase.CreateUser, statement by statement.  The user row inserted  *)
(* by an open transaction locks its email in the unique index until the    *)
(* transaction ends.                                                       *)
(***************************************************************************)

\* A statement of CreateUser that touches the creator's record only.
CreatorStep(k, c) ==
    /\ creator' = [creator EXCEPT ![k] = c]
    /\ UNCHANGED <<users, wallets, ledger, call, issued, refsIssued, opsIssued,
                   reader>>

\* return nil, err (after tx.Rollback() inside the transaction).
CreatorFailed(c, err) == [c EXCEPT !.pc = "done", !.err = err]

\* The call CreateUser(name, email) arrives.
CreateUserCall(k, m) ==
    /\ creator[k].pc \in {"idle", "done"}
    /\ CreatorStep(k, [pc |-> "get_by_email", email |-> m,
                       existed |-> m \in users, err |-> Nil])

\* Mutant: CreateUser without the look-up by email.
GetByEmailSkipped(k) ==
    /\ creator[k].pc = "get_by_email"
    /\ CreatorStep(k, [creator[k] EXCEPT !.pc = "create_user"])

\* existingUser, err := uc.repos.User.GetByEmail(email), outside the
\* transaction: a committed user with the email ends the call.
GetByEmail(k) ==
    LET c == creator[k] IN
    /\ c.pc = "get_by_email"
    /\ CreatorStep(k, IF c.email \in users
                      THEN CreatorFailed(c, "ErrUserAlreadyExists")
                      ELSE [c EXCEPT !.pc = "create_user"])

\* The user row of k is inserted and not yet committed.
HoldsEmail(k) == creator[k].pc \in {"create_wallet", "commit_user"}

\* tx := BeginTransaction(); txRepos.User.Create(user): waits while another
\* open transaction holds the email; a committed row with the email makes
\* the INSERT fail (duplicate key).
CreateUserRow(k) ==
    LET c == creator[k] IN
    /\ c.pc = "create_user"
    /\ \A j \in Creators \ {k} : ~(HoldsEmail(j) /\ creator[j].email = c.email)
    /\ CreatorStep(k, IF c.email \in users
                      THEN CreatorFailed(c, "failed to create user: duplicate key")
                      ELSE [c EXCEPT !.pc = "create_wallet"])

\* txRepos.Wallet.Create(wallet) with Balance 0 for the new user's id.
CreateWalletRow(k) ==
    /\ creator[k].pc = "create_wallet"
    /\ CreatorStep(k, [creator[k] EXCEPT !.pc = "commit_user"])

\* The wallet rows once the wallet of new user m is committed.
WithWallet(m) ==
    [w \in DOMAIN wallets \cup {m} |-> IF w = m THEN 0 ELSE wallets[w]]

\* Mutant: the user row is committed on its own, the wallet row is lost.
CommitUserOnly(k) ==
    /\ creator[k].pc = "commit_user"
    /\ users' = users \cup {creator[k].email}
    /\ creator' = [creator EXCEPT ![k].pc = "load_user"]
    /\ UNCHANGED <<wallets, ledger, call, issued, refsIssued, opsIssued, reader>>

\* tx.Commit(): the user row and the wallet row become visible together.
CommitUser(k) ==
    /\ creator[k].pc = "commit_user"
    /\ users' = users \cup {creator[k].email}
    /\ wallets' = WithWallet(creator[k].email)
    /\ creator' = [creator EXCEPT ![k].pc = "load_user"]
    /\ UNCHANGED <<ledger, call, issued, refsIssued, opsIssued, reader>>

\* return uc.repos.User.GetByID(user.ID)
LoadUser(k) ==
    /\ creator[k].pc = "load_user"
    /\ CreatorStep(k, [creator[k] EXCEPT !.pc = "done"])

\* A statement of CreateUser fails in the store: inside the transaction the
\* call rolls back; a failed COMMIT leaves nothing committed; a failed load
\* after the commit returns the error and leaves the committed rows.
CreateUserFails(k) ==
    /\ creator[k].pc \in {"get_by_email", "create_user", "create_wallet",
                          "commit_user", "load_user"}
    /\ CreatorStep(k, CreatorFailed(creator[k], "store error"))

\* One statement of the CreateUser call that goroutine k runs.
CreateUserStep(k) ==
    \/ GetByEmail(k)
    \/ CreateUserRow(k)
    \/ CreateWalletRow(k)
    \/ CommitUser(k)
    \/ LoadUser(k)

\* The status the CreateUser handler answers with.
CreateUserStatus(err) ==
    IF err = Nil THEN 200
    ELSE IF err = "ErrUserAlreadyExists" THEN 409
    ELSE 500

(***************************************************************************)
(* The read-side use cases RunReconciliation and GetTransactionHistory.    *)
(* They use uc.repos, not a transaction: every statement reads the rows    *)
(* committed at the instant it runs.                                       *)
(***************************************************************************)

Read(r) ==
    /\ reader' = r
    /\ UNCHANGED <<users, wallets, ledger, call, issued, refsIssued, opsIssued,
                   creator>>

\* Scan(&result) stores the sum in an int64; a sum outside the range of the
\* type is a conversion error, which RunReconciliation logs and skips.
SumFits(u) ==
    GetUserTransactionSum(u) >= MinInt /\ GetUserTransactionSum(u) <= MaxInt

\* models.ReconciliationResult for one wallet (CheckedAt left out).
ReconciliationResult(u, stored, calculated) ==
    [user |-> u, stored |-> stored, calculated |-> calculated,
     difference |-> SubInt(stored, calculated),
     mismatch |-> SubInt(stored, calculated) # 0]

\* wallets, err := uc.repos.Wallet.GetAllWallets(): the loop will visit the
\* rows read here.
RunReconciliation ==
    /\ reader.pc \in {"idle", "done"}
    /\ Read([IdleReader EXCEPT !.pc = IF DOMAIN wallets = {} THEN "done"
                                      ELSE "sum",
                               !.op = "reconcile",
                               !.snapshot = wallets,
                               !.todo = DOMAIN wallets,
                               !.drift = Drifted])

\* Mutant: a reconciliation that corrects the drift it finds, writing the
\* calculated balance back to the wallet row.
ReconcileWalletCorrecting(u) ==
    /\ reader.pc = "sum"
    /\ u \in reader.todo
    /\ reader' = [reader EXCEPT
                    !.todo = reader.todo \ {u},
                    !.pc = IF reader.todo \ {u} = {} THEN "done" ELSE "sum"]
    /\ wallets' = [wallets EXCEPT ![u] = WrapInt(GetUserTransactionSum(u))]
    /\ UNCHANGED <<users, ledger, call, issued, refsIssued, opsIssued, creator>>

\* One iteration of "for _, wallet := range wallets" (the rows come in the
\* order the store returned them, any order here): the ledger sum is read
\* now, the balance is the one read by GetAllWallets.
ReconcileWallet(u) ==
    /\ reader.pc = "sum"
    /\ u \in reader.todo
    /\ LET todo == reader.todo \ {u}
           result == ReconciliationResult(u, reader.snapshot[u],
                                         GetUserTransactionSum(u))
       IN Read([reader EXCEPT
                  !.todo = todo,
                  !.results = IF SumFits(u) THEN reader.results \cup {result}
                              ELSE reader.results,
                  !.skipped = IF SumFits(u) THEN reader.skipped
                              ELSE reader.skipped \cup {u},
                  !.pc = IF todo = {} THEN "done" ELSE "sum"])

\* GetAllWallets fails in the store: return nil, "failed to get wallets".
GetAllWalletsFails ==
    /\ reader.pc \in {"idle", "done"}
    /\ Read([IdleReader EXCEPT !.pc = "done", !.op = "reconcile",
                               !.err = "failed to get wallets"])

\* Mutant: a failed sum ends the run, which returns the error and no result.
ReconcileWalletSumReturns(u) ==
    /\ reader.pc = "sum"
    /\ u \in reader.todo
    /\ Read([reader EXCEPT !.todo = {}, !.results = {}, !.pc = "done",
                           !.skipped = reader.skipped \cup {u},
                           !.err = "failed to calculate balance"])

\* An iteration whose GetUserTransactionSum fails in the store: the error is
\* logged and the loop goes on with the next wallet ("continue").
ReconcileWalletSumFails(u) ==
    /\ reader.pc = "sum"
    /\ u \in reader.todo
    /\ Read([reader EXCEPT
               !.todo = reader.todo \ {u},
               !.skipped = reader.skipped \cup {u},
               !.pc = IF reader.todo \ {u} = {} THEN "done" ELSE "sum"])

\* Mutant: the history selects only the rows whose user_id is the owner.
HistoryRowsOwnerOnly(u) == {e \in ledger : e.user = u}

\* The page and pageSize clamps of GetTransactionHistory.
EffectivePage(page) == IF page < 1 THEN 1 ELSE page
EffectivePageSize(pageSize) ==
    IF pageSize < 1 THEN 10 ELSE IF pageSize > 100 THEN 100 ELSE pageSize

\* The rows selected by the WHERE clause of transactionRepository.GetByUserID.
HistoryRows(u) == {e \in ledger : e.user = u \/ e.from = u \/ e.to = u}

\* ORDER BY created_at DESC over a set of rows.
RECURSIVE NewestFirst(_)
NewestFirst(S) ==
    IF S = {} THEN <<>>
    ELSE LET e == CHOOSE x \in S : \A y \in S : y.at <= x.at
         IN <<e>> \o NewestFirst(S \ {e})

\* Number of rows of a result of total rows cut by LIMIT and OFFSET.
PageLength(total, limit, offset) ==
    IF offset >= total THEN 0
    ELSE IF total - offset < limit THEN total - offset
    ELSE limit

\* .Limit(limit).Offset(offset): gorm writes the OFFSET clause only for a
\* positive offset.
Skipped(offset) == IF offset > 0 THEN offset ELSE 0

\* The rows of sequence all that LIMIT and OFFSET keep.
Page(all, limit, offset) ==
    SubSeq(all, Skipped(offset) + 1,
           Skipped(offset) + PageLength(Len(all), limit, Skipped(offset)))

\* GetTransactionHistory up to the first statement of GetByUserID: the
\* clamps, the offset (computed in Go's int) and the Count query.
GetTransactionHistory(u, page, pageSize) ==
    /\ reader.pc \in {"idle", "done"}
    /\ Read([IdleReader EXCEPT
               !.pc = "find", !.op = "history", !.user = u,
               !.page = page, !.pageSize = pageSize,
               !.limit = EffectivePageSize(pageSize),
               !.offset = MulInt(SubInt(EffectivePage(page), 1),
                                 EffectivePageSize(pageSize)),
               !.total = Cardinality(HistoryRows(u))])

\* The second statement of GetByUserID: the page query, over the rows
\* committed now.
GetHistoryPage ==
    /\ reader.pc = "find"
    /\ Read([reader EXCEPT
               !.pc = "done",
               !.rows = Page(NewestFirst(HistoryRows(reader.user)),
                             reader.limit, reader.offset)])

\* One statement of the call that goroutine p runs.
CallStep(p) ==
    \/ GetByReference(p)
    \/ GetUserByID(p)
    \/ GetRecipientByID(p)
    \/ GetWallet(p)
    \/ CreateTransaction(p)
    \/ UpdateBalance(p)
    \/ UpdateRecipientBalance(p)
    \/ LockWaitError(p)
    \/ Commit(p)

(***************************************************************************)
(* Specifications                                                          *)
(***************************************************************************)

\* The number of calls issued in one behaviour is capped.
WithinCalls == issued < MaxCalls

\* Any two wallet calls, concurrent or one after the other.
Next ==
    \/ WithinCalls /\ \E p \in Callers, u \in UserIds, a \in Amounts, r \in Refs :
          FundWallet(p, u, a, r)
    \/ WithinCalls /\ \E p \in Callers, u \in UserIds, a \in Amounts, r \in Refs :
          WithdrawFunds(p, u, a, r)
    \/ WithinCalls /\ \E p \in Callers, u \in UserIds, v \in UserIds, a \in Amounts, r \in Refs :
          TransferFunds(p, u, v, a, r)
    \/ \E p \in Callers : CallStep(p)

Spec == Init /\ [][Next]_vars

\* Any calls, all carrying the same reference.  A call takes a wallet's row
\* lock only after its insert, and the unique index admits one uncommitted
\* insert of the reference at a time, so no wait cycle forms and
\* LockWaitError is never enabled here.
OneRefStep(p) ==
    \/ GetByReference(p)
    \/ GetUserByID(p)
    \/ GetRecipientByID(p)
    \/ GetWallet(p)
    \/ CreateTransaction(p)
    \/ UpdateBalance(p)
    \/ UpdateRecipientBalance(p)
    \/ Commit(p)

NextOneRef ==
    \/ WithinCalls /\ \E p \in Callers, u \in UserIds, a \in Amounts :
          FundWallet(p, u, a, "r1")
    \/ WithinCalls /\ \E p \in Callers, u \in UserIds, a \in Amounts :
          WithdrawFunds(p, u, a, "r1")
    \/ WithinCalls /\ \E p \in Callers, u \in UserIds, v \in UserIds, a \in Amounts :
          TransferFunds(p, u, v, a, "r1")
    \/ \E p \in Callers : OneRefStep(p)

SpecOneRef == Init /\ [][NextOneRef]_vars

\* No fund, withdraw or transfer is between its call and its return.
NoCallInFlight == \A p \in Callers : call[p].pc \in {"idle", "done"}

\* Calls issued one after the other (a call is issued only when the previous
\* one has returned), with fund amounts up to the largest value a balance can
\* hold and withdrawals below, at and above the seeded balance.
NextSequential ==
    \/ WithinCalls /\ NoCallInFlight
         /\ \E p \in Callers, u \in {"A", "B"}, a \in {3, MaxInt - 5}, r \in Refs :
               FundWallet(p, u, a, r)
    \/ WithinCalls /\ NoCallInFlight
         /\ \E p \in Callers, u \in {"A", "B"}, a \in {3, 5, 7}, r \in Refs :
               WithdrawFunds(p, u, a, r)
    \/ WithinCalls /\ NoCallInFlight
         /\ \E p \in Callers, u \in {"A", "B"}, v \in {"A", "B"}, r \in Refs :
               TransferFunds(p, u, v, 3, r)
    \/ \E p \in Callers : OneRefStep(p)

SpecSequential == Init /\ [][NextSequential]_vars

\* Calls issued one after the other, some of which are refused: amounts at
\* and above zero, withdrawals and transfers below and above the balance,
\* owners with and without an account, transfers to the sender itself.  A
\* refused call can be followed by a call that carries the same reference.
NextRetry ==
    \/ WithinCalls /\ NoCallInFlight
         /\ \E p \in Callers, u \in UserIds, a \in {0, 3}, r \in Refs :
               FundWallet(p, u, a, r)
    \/ WithinCalls /\ NoCallInFlight
         /\ \E p \in Callers, u \in UserIds, a \in {0, 3, 7}, r \in Refs :
               WithdrawFunds(p, u, a, r)
    \/ WithinCalls /\ NoCallInFlight
         /\ \E p \in Callers, u \in UserIds, v \in UserIds, a \in {3, 7}, r \in Refs :
               TransferFunds(p, u, v, a, r)
    \/ \E p \in Callers : OneRefStep(p)

SpecRetry == Init /\ [][NextRetry]_vars

\* Calls with valid and invalid arguments, all carrying the same reference:
\* amounts below, at and above zero, owners with and without an account,
\* transfers to the sender itself.
NextArguments ==
    \/ WithinCalls /\ \E p \in Callers, u \in UserIds, a \in {-1, 0, 3} :
          FundWallet(p, u, a, "r1")
    \/ WithinCalls /\ \E p \in Callers, u \in UserIds, a \in {-1, 0, 3} :
          WithdrawFunds(p, u, a, "r1")
    \/ WithinCalls /\ \E p \in Callers, u \in UserIds, v \in UserIds, a \in {-1, 0, 3} :
          TransferFunds(p, u, v, a, "r1")
    \/ \E p \in Callers : OneRefStep(p)

SpecArguments == Init /\ [][NextArguments]_vars

\* The store right after AutoMigrate: no rows, no request yet.
InitEmpty ==
    /\ users = {}
    /\ wallets = NoWallets
    /\ ledger = {}
    /\ call = [p \in Callers |-> IdleCall]
    /\ issued = 0
    /\ refsIssued = {}
    /\ opsIssued = {}
    /\ reader = IdleReader
    /\ creator = [k \in Creators |-> IdleCreator]

\* The wallet requests of TestFullWalletFlow in their order, amounts divided
\* by 100 (fund 10000, withdraw 2000, transfer 3000).
Scenario ==
    << [op |-> "fund", user |-> "A", to |-> Nil, amount |-> 100, ref |-> "f1"],
       [op |-> "withdraw", user |-> "A", to |-> Nil, amount |-> 20, ref |-> "w1"],
       [op |-> "transfer", user |-> "A", to |-> "B", amount |-> 30, ref |-> "t1"] >>

\* The next request of the scenario, served by goroutine p.
ScenarioCall(p) ==
    /\ issued < Len(Scenario)
    /\ LET s == Scenario[issued + 1] IN
          \/ s.op = "fund" /\ FundWallet(p, s.user, s.amount, s.ref)
          \/ s.op = "withdraw" /\ WithdrawFunds(p, s.user, s.amount, s.ref)
          \/ s.op = "transfer" /\ TransferFunds(p, s.user, s.to, s.amount, s.ref)

\* The reader goroutine is not inside a request.
ReaderAtRest == reader.pc \in {"idle", "done"}

\* TestFullWalletFlow: the two users are created, then the requests of the
\* scenario are made one after the other; a history or reconciliation
\* request is made between or after them, never during one.
NextScenario ==
    \/ issued = 0 /\ \E u \in {"A", "B"} : CreateUser(u)
    \/ users = {"A", "B"} /\ NoCallInFlight /\ ReaderAtRest
         /\ \E p \in Callers : ScenarioCall(p)
    \/ \E p \in Callers : OneRefStep(p)
    \/ NoCallInFlight /\ RunReconciliation
    \/ \E u \in UserIds : ReconcileWallet(u)
    \/ NoCallInFlight /\ \E u \in {"A", "B"} : GetTransactionHistory(u, 1, 10)
    \/ GetHistoryPage

SpecScenario == InitEmpty /\ [][NextScenario]_vars

\* Concurrent calls on accounts A and B, with fund amounts up to the largest
\* value of the balance type; between them, while no call is in flight, a
\* reconciliation or a history request.
NextReads ==
    \/ WithinCalls /\ ReaderAtRest
         /\ \E p \in Callers, a \in {3, MaxInt}, r \in Refs :
               FundWallet(p, "A", a, r)
    \/ WithinCalls /\ ReaderAtRest
         /\ \E p \in Callers, r \in Refs : WithdrawFunds(p, "A", 5, r)
    \/ WithinCalls /\ ReaderAtRest
         /\ \E p \in Callers, u \in {"A", "B"}, v \in {"A", "B"}, r \in Refs :
               TransferFunds(p, u, v, 3, r)
    \/ \E p \in Callers : CallStep(p)
    \/ NoCallInFlight /\ RunReconciliation
    \/ \E u \in UserIds : ReconcileWallet(u)
    \/ NoCallInFlight
         /\ \E u \in {"A", "B"}, page \in {0, 2}, pageSize \in {0, 1, 101} :
               GetTransactionHistory(u, page, pageSize)
    \/ GetHistoryPage

SpecReads == Init /\ [][NextReads]_vars

\* Concurrent funds of A and transfers between A and B; between them, while
\* no call is in flight, a reconciliation or a history request.
NextReadOnly ==
    \/ WithinCalls /\ ReaderAtRest
         /\ \E p \in Callers, r \in Refs : FundWallet(p, "A", 3, r)
    \/ WithinCalls /\ ReaderAtRest
         /\ \E p \in Callers, u \in {"A", "B"}, v \in {"A", "B"}, r \in Refs :
               TransferFunds(p, u, v, 3, r)
    \/ \E p \in Callers : CallStep(p)
    \/ NoCallInFlight /\ RunReconciliation
    \/ \E u \in UserIds : ReconcileWallet(u)
    \/ NoCallInFlight
         /\ \E u \in {"A", "B"}, page \in {0, 2}, pageSize \in {1, 101} :
               GetTransactionHistory(u, page, pageSize)
    \/ GetHistoryPage

SpecReadOnly == Init /\ [][NextReadOnly]_vars

\* Transfers only, among three users once CreateUser("C") has run.
NextTransfers ==
    \/ WithinCalls /\ \E p \in Callers, u \in UserIds, v \in UserIds, r \in Refs :
          TransferFunds(p, u, v, 3, r)
    \/ \E p \in Callers : CallStep(p)
    \/ CreateUser("C")

SpecTransfers == Init /\ [][NextTransfers]_vars

\* The same, with every goroutine scheduled and every statement answered by
\* the store: a call that can take a step eventually takes one.
FairTransfers ==
    SpecTransfers /\ \A p \in Callers : WF_vars(CallStep(p))

\* The statements of FundWallet and WithdrawFunds.
SingleAccountStep(p) ==
    \/ GetByReference(p)
    \/ GetUserByID(p)
    \/ GetWallet(p)
    \/ CreateTransaction(p)
    \/ UpdateBalance(p)
    \/ Commit(p)

\* Concurrent funds and withdrawals, no transfers: same or distinct
\* references, same or distinct accounts, withdrawals below and above the
\* balance.
NextSingleAccount ==
    \/ WithinCalls /\ \E p \in Callers, u \in {"A", "B"}, r \in Refs :
          FundWallet(p, u, 3, r)
    \/ WithinCalls /\ \E p \in Callers, u \in {"A", "B"}, a \in {3, 7}, r \in Refs :
          WithdrawFunds(p, u, a, r)
    \/ \E p \in Callers : SingleAccountStep(p)

SpecSingleAccount == Init /\ [][NextSingleAccount]_vars

\* The same, with every goroutine scheduled and every statement answered by
\* the store once the locks it needs are free.
FairSingleAccount ==
    SpecSingleAccount /\ \A p \in Callers : WF_vars(SingleAccountStep(p))

\* Calls whose amount is the largest value of the integer type.
NextOverflow ==
    \/ WithinCalls /\ \E p \in Callers, u \in {"A", "B"}, a \in {3, MaxInt}, r \in Refs :
          FundWallet(p, u, a, r)
    \/ WithinCalls /\ \E p \in Callers, u \in {"A", "B"}, r \in Refs :
          WithdrawFunds(p, u, 3, r)
    \/ WithinCalls /\ \E p \in Callers, u \in {"A", "B"}, v \in {"A", "B"}, r \in Refs :
          TransferFunds(p, u, v, 3, r)
    \/ \E p \in Callers : CallStep(p)

SpecOverflow == Init /\ [][NextOverflow]_vars

\* Valid calls against a store whose statements can fail.
NextFaults ==
    \/ WithinCalls /\ \E p \in Callers, u \in {"A", "B"}, r \in Refs :
          FundWallet(p, u, 3, r)
    \/ WithinCalls /\ \E p \in Callers, u \in {"A", "B"}, r \in Refs :
          WithdrawFunds(p, u, 3, r)
    \/ WithinCalls /\ \E p \in Callers, u \in {"A", "B"}, v \in {"A", "B"}, r \in Refs :
          TransferFunds(p, u, v, 3, r)
    \/ \E p \in Callers : CallStep(p)
    \/ \E p \in Callers : StoreFail(p)

SpecFaults == Init /\ [][NextFaults]_vars

\* Concurrent funds of A and transfers between A and B; between them, while
\* no call is in flight, a reconciliation against a store whose read
\* statements can fail.
NextReconcileFaults ==
    \/ WithinCalls /\ ReaderAtRest
         /\ \E p \in Callers, r \in Refs : FundWallet(p, "A", 3, r)
    \/ WithinCalls /\ ReaderAtRest
         /\ \E p \in Callers, u \in {"A", "B"}, v \in {"A", "B"}, r \in Refs :
               TransferFunds(p, u, v, 3, r)
    \/ \E p \in Callers : CallStep(p)
    \/ NoCallInFlight /\ RunReconciliation
    \/ NoCallInFlight /\ GetAllWalletsFails
    \/ \E u \in UserIds : ReconcileWallet(u)
    \/ \E u \in UserIds : ReconcileWalletSumFails(u)

SpecReconcileFaults == Init /\ [][NextReconcileFaults]_vars

\* A reconciliation that overlaps the calls: funds of A, withdrawals from B
\* and transfers from A to B are issued one after the other, so no update is
\* lost between them, while the reconciliation starts and visits the
\* wallets at any moment, also between the statements of a call.
NextReconcileDuring ==
    \/ WithinCalls /\ NoCallInFlight
         /\ \E p \in Callers, r \in Refs : FundWallet(p, "A", 3, r)
    \/ WithinCalls /\ NoCallInFlight
         /\ \E p \in Callers, r \in Refs : WithdrawFunds(p, "B", 3, r)
    \/ WithinCalls /\ NoCallInFlight
         /\ \E p \in Callers, r \in Refs : TransferFunds(p, "A", "B", 3, r)
    \/ \E p \in Callers : OneRefStep(p)
    \/ RunReconciliation
    \/ \E u \in UserIds : ReconcileWallet(u)

SpecReconcileDuring == Init /\ [][NextReconcileDuring]_vars

\* Concurrent CreateUser calls for the emails of existing users (A, B) and
\* for a new email (C).
NextUsers ==
    \/ \E k \in Creators, m \in UserIds : CreateUserCall(k, m)
    \/ \E k \in Creators : CreateUserStep(k)

SpecUsers == Init /\ [][NextUsers]_vars

\* The same against a store whose statements can fail.
NextUserFaults ==
    \/ \E k \in Creators, m \in UserIds : CreateUserCall(k, m)
    \/ \E k \in Creators : CreateUserStep(k)
    \/ \E k \in Creators : CreateUserFails(k)

SpecUserFaults == Init /\ [][NextUserFaults]_vars

\* A page number whose offset does not fit Go's int: with page size 4 or 100
\* the product (page - 1) * pageSize is a multiple of the modulus of the
\* integer type.
HugePage == Pow2(IntBits - 2) + 1

\* Concurrent funds of A and transfers between A and B; between them, while
\* no call is in flight, history requests with page numbers and page sizes
\* below, inside and above their ranges.
NextHistory ==
    \/ WithinCalls /\ ReaderAtRest
         /\ \E p \in Callers, r \in Refs : FundWallet(p, "A", 3, r)
    \/ WithinCalls /\ ReaderAtRest
         /\ \E p \in Callers, u \in {"A", "B"}, v \in {"A", "B"}, r \in Refs :
               TransferFunds(p, u, v, 3, r)
    \/ \E p \in Callers : CallStep(p)
    \/ NoCallInFlight
         /\ \E u \in {"A", "B"}, page \in {0, 2, HugePage}, pageSize \in {1, 4, 101} :
               GetTransactionHistory(u, page, pageSize)
    \/ GetHistoryPage

SpecHistory == Init /\ [][NextHistory]_vars

\* Funds, withdrawals and transfers among three accounts (once
\* CreateUser("C") has run), within and beyond the balance, against a store
\* whose statements can fail.
NextFrame ==
    \/ WithinCalls /\ \E p \in Callers, u \in {"A", "C"}, r \in Refs :
          FundWallet(p, u, 3, r)
    \/ WithinCalls /\ \E p \in Callers, r \in Refs : WithdrawFunds(p, "B", 7, r)
    \/ WithinCalls /\ \E p \in Callers, u \in {"A", "B"}, v \in UserIds, r \in Refs :
          TransferFunds(p, u, v, 3, r)
    \/ \E p \in Callers : CallStep(p)
    \/ \E p \in Callers : StoreFail(p)
    \/ CreateUser("C")

SpecFrame == Init /\ [][NextFrame]_vars

(***************************************************************************)
(* Properties                                                              *)
(***************************************************************************)

\* No call is in flight.
AllReturned == \A p \in Callers : call[p].pc \in {"idle", "done"}

\* Signed contribution of a completed entry to account u: credit +amount,
\* debit -amount, transfer -amount for the source and +amount for the
\* destination.
Signed(e, u) ==
    IF e.status # "completed" THEN 0
    ELSE IF e.type = "credit" /\ e.user = u THEN e.amount
    ELSE IF e.type = "debit" /\ e.user = u THEN 0 - e.amount
    ELSE IF e.type = "transfer" /\ e.from = u THEN 0 - e.amount
    ELSE IF e.type = "transfer" /\ e.to = u THEN e.amount
    ELSE 0

RECURSIVE SignedSum(_, _)
SignedSum(S, u) ==
    IF S = {} THEN 0
    ELSE LET e == CHOOSE x \in S : TRUE IN Signed(e, u) + SignedSum(S \ {e}, u)

LedgerSum(u) == SignedSum(ledger, u)

\* Amounts taken out of, and put into, account u by the committed entries.
Debited(u) == 0 - SignedSum({e \in ledger : Signed(e, u) < 0}, u)
Credited(u) == SignedSum({e \in ledger : Signed(e, u) > 0}, u)

RECURSIVE BalanceTotal(_)
BalanceTotal(U) ==
    IF U = {} THEN 0
    ELSE LET u == CHOOSE x \in U : TRUE IN wallets[u] + BalanceTotal(U \ {u})

\* Every call issued so far carried the same reference.
OneReference == Cardinality(refsIssued) = 1

\* Goroutines p and q have both returned from a call that committed its own
\* entry.
BothCommitted(p, q) ==
    /\ p # q
    /\ call[p].pc = "done" /\ call[p].err = Nil /\ call[p].txn.id = call[p].id
    /\ call[q].pc = "done" /\ call[q].err = Nil /\ call[q].txn.id = call[q].id

\* Every call issued so far is still the current call of its goroutine.
CallsOnRecord ==
    issued = Cardinality({p \in Callers : call[p].pc # "idle"})

\* The call of p passes the argument checks and names existing accounts.
ValidArguments(p) ==
    /\ call[p].amount > 0
    /\ call[p].user \in users
    /\ call[p].op = "transfer" => (call[p].to \in users /\ call[p].to # call[p].user)

\* C1 (as stated): once all calls sharing one reference have returned, there
\* is exactly one entry with that reference and the balances show the effect
\* of exactly one call.  Stated here for calls with valid arguments only.
C1_ExactlyOneEntry ==
    (/\ AllReturned /\ OneReference /\ CallsOnRecord
     /\ \A p \in Callers : call[p].pc # "idle" => ValidArguments(p))
    => \A r \in refsIssued :
            /\ Cardinality(FindByReference(r)) = 1
            /\ \A u \in DOMAIN wallets : wallets[u] = LedgerSum(u)

\* C1 (amended): once all calls sharing one reference have returned, there is
\* at most one entry with that reference, exactly one if any of the calls
\* returned success, and the balances show the effect of exactly the
\* committed entries (so of at most one of the calls).
C1_AtMostOnce ==
    (AllReturned /\ OneReference) =>
        \A r \in refsIssued :
            /\ Cardinality(FindByReference(r)) <= 1
            /\ (\E p \in Callers : call[p].pc = "done" /\ call[p].err = Nil)
                  => Cardinality(FindByReference(r)) = 1
            /\ \A u \in DOMAIN wallets : wallets[u] = LedgerSum(u)

\* C1 witness: two calls with the same reference ran concurrently, one
\* committed and the other was stopped by the unique reference.
C1_Witness ==
    /\ AllReturned /\ OneReference /\ issued = 2
    /\ \E p, q \in Callers :
          /\ call[p].err = Nil /\ call[p].txn.id = call[p].id
          /\ call[q].err = "failed to create transaction: duplicate key"
          /\ wallets[call[p].user] # 5

\* C2: whenever no fund, withdraw or transfer is in flight, every account's
\* stored balance equals the signed sum of the completed entries touching it.
C2_Reconciled ==
    AllReturned => \A u \in DOMAIN wallets : wallets[u] = LedgerSum(u)

\* C3: when two funds with distinct references on the same account both
\* succeed, the final balance shows both amounts.
C3_NoLostUpdate ==
    \A p, q \in Callers :
        (/\ BothCommitted(p, q)
         /\ call[p].op = "fund" /\ call[q].op = "fund"
         /\ call[p].user = call[q].user
         /\ issued = 2)
        => wallets[call[p].user] =
              AddInt(AddInt(5, call[p].amount), call[q].amount)

\* C4: the total debited from an account by the calls that succeeded never
\* exceeds what was credited to it.
C4_NoDoubleSpend ==
    \A u \in DOMAIN wallets : Debited(u) <= Credited(u)

\* C5: after any interleaving of transfers has completed, the sum of all
\* balances is what it was before them.
C5_Conservation ==
    (AllReturned /\ opsIssued \subseteq {"transfer"}) =>
        BalanceTotal(DOMAIN wallets) = 10

\* C7: every committed balance is >= 0.
C7_NonNegative == \A u \in DOMAIN wallets : wallets[u] >= 0

\* C6 witness: the two opposite transfers each hold the row the other one
\* needs.
C6_Witness ==
    \E p, q \in Callers :
        /\ InWaitCycle(p) /\ q \in Blockers(p)
        /\ call[p].op = "transfer" /\ call[q].op = "transfer"
        /\ call[p].user = "A" /\ call[p].to = "B"
        /\ call[q].user = "B" /\ call[q].to = "A"
        /\ call[p].ref # call[q].ref

\* C6: every transfer that was issued eventually returns, also transfer(A, B)
\* and transfer(B, A) issued concurrently with distinct references.
C6_BothReturn ==
    \A p \in Callers :
        (call[p].pc \notin {"idle", "done"}) ~> (call[p].pc = "done")

\* The wallet rows that the transaction of call c, once committed, must
\* leave: its own balance changes and nothing else.
ExpectedWallets(c) ==
    [u \in DOMAIN wallets |->
        IF u = c.user
        THEN (IF c.op = "fund" THEN AddInt(c.fromBal, c.amount)
              ELSE SubInt(c.fromBal, c.amount))
        ELSE IF c.op = "transfer" /\ u = c.to THEN AddInt(c.toBal, c.amount)
        ELSE wallets[u]]

\* A step that makes a new entry or a new balance visible is the commit of
\* one call, and it makes the call's entry and all of its balance changes
\* visible together.
AtomicStep ==
    (ledger' # ledger \/ wallets' # wallets) =>
        \E p \in Callers :
            /\ call[p].pc = "commit"
            /\ call'[p].pc = "done" /\ call'[p].err = Nil
            /\ NewEntry(call[p]) \notin ledger
            /\ ledger' = ledger \cup {NewEntry(call[p])}
            /\ wallets' = ExpectedWallets(call[p])

\* A call that returned an error has left no entry.
FailedLeavesNothing ==
    \A p \in Callers :
        (call[p].pc = "done" /\ call[p].err # Nil) =>
            \A e \in ledger : e.id # call[p].id

\* C8: no fund, withdraw or transfer applies partially: an entry becomes
\* visible only together with its balance change(s), and a call whose entry
\* creation, balance update or commit fails leaves neither.
C8_Atomic == [][AtomicStep]_vars /\ []FailedLeavesNothing

\* C8 witness: a transfer has committed while another call lost its
\* transaction to a store error.
C8_Witness ==
    \E p, q \in Callers :
        /\ call[p].pc = "done" /\ call[p].err = Nil
        /\ call[p].op = "transfer" /\ call[p].txn.id = call[p].id
        /\ call[q].pc = "done" /\ call[q].err = "store error"

\* C9: a uniqueness violation raised at entry creation is never returned to a
\* caller as a failure.
C9_DuplicateNeverFails ==
    \A p \in Callers :
        call[p].pc = "done" =>
            call[p].err # "failed to create transaction: duplicate key"

\* The call of p was issued when its reference already belonged to a
\* committed entry.
IsDuplicate(p) ==
    call[p].pc # "idle" /\ call[p].amount > 0 /\ call[p].prior # NilTxn

\* The call of p goes no further than the look-up of its reference, and
\* returns the existing entry without error.
ShortCircuits(p) ==
    /\ call[p].pc \in {"get_by_reference", "done"}
    /\ call[p].pc = "done" => (call[p].err = Nil /\ call[p].txn = call[p].prior)

\* C10 (as stated): a fund, withdraw or transfer call with amount > 0 whose
\* reference already belongs to a committed entry returns that entry without
\* error, creates no entry and changes no balance.
C10_DuplicateReturnsEntry ==
    \A p \in Callers : IsDuplicate(p) => ShortCircuits(p)

\* C10 (amended): the same, for a fund, a withdraw, and a transfer whose
\* source and destination differ.
C10_DuplicateReturnsEntryDistinct ==
    \A p \in Callers :
        (IsDuplicate(p) /\ call[p].user # call[p].to) => ShortCircuits(p)

\* C10 witness: a call was issued with the reference of a committed entry and
\* has returned that entry.
C10_Witness ==
    \E p \in Callers :
        /\ IsDuplicate(p) /\ call[p].pc = "done"
        /\ call[p].txn = call[p].prior /\ call[p].txn.ref = call[p].ref

\* The step is the commit of a transfer by goroutine p.
TransferCommits(p) ==
    /\ call[p].op = "transfer" /\ call[p].pc = "commit"
    /\ call'[p].pc = "done" /\ call'[p].err = Nil

TransferEffect(p) ==
    LET a == call[p].user
        b == call[p].to
    IN /\ wallets'[a] = wallets[a] - call[p].amount
       /\ wallets'[b] = wallets[b] + call[p].amount
       /\ wallets'[a] + wallets'[b] = wallets[a] + wallets[b]
       /\ \E e \in ledger' :
             /\ e \notin ledger /\ ledger' = ledger \cup {e}
             /\ e.type = "transfer" /\ e.ref = call[p].ref
             /\ e.from = a /\ e.to = b /\ e.amount = call[p].amount

\* C11: a successful transfer of amount from A to B, run with no concurrent
\* operation, lowers A's balance by exactly amount, raises B's balance by
\* exactly amount (so the sum of the two balances is unchanged) and creates
\* exactly one entry of kind transfer.
C11_TransferEffect ==
    [][\A p \in Callers : TransferCommits(p) => TransferEffect(p)]_vars

\* Goroutine p runs an op call that is about to read its wallet (its
\* reference was unused at the look-up and its owner exists), and the
\* committed balance is below the amount.
ShortOfFunds(p, op) ==
    /\ call[p].op = op /\ call[p].pc = "get_wallet"
    /\ WalletExists(call[p].user)
    /\ call[p].amount > wallets[call[p].user]

\* The next step of p returns InsufficientFunds and changes no row.
RefusedForFunds(p) ==
    call'[p] # call[p] =>
        /\ call'[p].pc = "done" /\ call'[p].err = "ErrInsufficientFunds"
        /\ call'[p].txn = NilTxn
        /\ wallets' = wallets /\ ledger' = ledger

\* A call that returned InsufficientFunds has left no entry.
RefusedLeavesNoEntry(op) ==
    \A p \in Callers :
        (call[p].pc = "done" /\ call[p].op = op
         /\ call[p].err = "ErrInsufficientFunds")
        => \A e \in ledger : e.id # call[p].id

\* The only call issued so far was an op call for more than the owner's
\* balance, and it has returned: it returned InsufficientFunds and the
\* store is as it was.
RefusedWhenAlone(op) ==
    \A p \in Callers :
        (/\ issued = 1 /\ call[p].pc = "done" /\ call[p].op = op
         /\ call[p].user \in users /\ call[p].amount > 5
         /\ call[p].op = "transfer" => (call[p].to \in users /\ call[p].to # call[p].user))
        => /\ call[p].err = "ErrInsufficientFunds"
           /\ wallets = [u \in {"A", "B"} |-> 5]
           /\ ledger = SeedLedger

\* C12: withdraw(A, amount, ref) with amount > A's balance and an unused
\* reference returns InsufficientFunds, leaves A's balance unchanged and
\* leaves the set of ledger entries unchanged.
C12_WithdrawInsufficient ==
    /\ [][\A p \in Callers : ShortOfFunds(p, "withdraw") => RefusedForFunds(p)]_vars
    /\ [](RefusedLeavesNoEntry("withdraw") /\ RefusedWhenAlone("withdraw"))

\* C12 witness: withdraw(A, 7, r1) has returned InsufficientFunds with
\* balance(A) = 5.
C12_Witness ==
    \E p \in Callers :
        /\ call[p].pc = "done" /\ call[p].op = "withdraw"
        /\ call[p].err = "ErrInsufficientFunds"
        /\ call[p].amount = 7 /\ wallets[call[p].user] = 5

\* C13: transfer(A, B, amount, ref) with amount > A's balance and an unused
\* reference returns InsufficientFunds, creates no entry and leaves both A's
\* and B's balances unchanged.
C13_TransferInsufficient ==
    /\ [][\A p \in Callers : ShortOfFunds(p, "transfer") => RefusedForFunds(p)]_vars
    /\ [](RefusedLeavesNoEntry("transfer") /\ RefusedWhenAlone("transfer"))

\* C13 witness: transfer(A, B, 7, r1) has returned InsufficientFunds with
\* both balances at 5.
C13_Witness ==
    \E p \in Callers :
        /\ call[p].pc = "done" /\ call[p].op = "transfer"
        /\ call[p].err = "ErrInsufficientFunds"
        /\ call[p].amount = 7
        /\ wallets[call[p].user] = 5 /\ wallets[call[p].to] = 5

\* The step is goroutine p entering a new call.
Enters(p) == call[p].pc \in {"idle", "done"} /\ call'[p] # call[p]

\* The step changes no row of the store.
StoreUnchanged == users' = users /\ wallets' = wallets /\ ledger' = ledger

\* The call of p was rejected on its arguments: it is at its return with the
\* error, without a result, and it never stood at a store statement.
RejectedWith(p, err) ==
    /\ call[p].pc = "done" /\ call[p].err = err /\ call[p].txn = NilTxn
    /\ \A e \in ledger : e.id # call[p].id

SameAccount(c) == c.op = "transfer" /\ c.user = c.to /\ c.amount > 0

\* C14: transfer(A, A, amount, ref) with amount > 0 is rejected with
\* SameAccount before any store read or write, whatever the state of the
\* store (even when ref already exists or A does not exist); no entry is
\* created and no balance changes.
C14_SameAccount ==
    /\ [](\A p \in Callers : SameAccount(call[p]) => RejectedWith(p, "ErrSameUser"))
    /\ [][\A p \in Callers :
             (Enters(p) /\ SameAccount(call'[p])) => StoreUnchanged]_vars

\* C14 witness: a transfer to the sender itself was rejected although its
\* reference already belonged to a committed entry.
C14_Witness ==
    \E p \in Callers :
        /\ SameAccount(call[p]) /\ call[p].err = "ErrSameUser"
        /\ call[p].prior # NilTxn /\ call[p].prior \in ledger

InvalidAmount(c) == c.op # Nil /\ c.amount <= 0

\* C15: fund, withdraw and transfer called with amount <= 0 return
\* InvalidAmount before any store read or write, whatever the account and
\* reference (existing or not); no entry is created and no balance changes.
C15_InvalidAmount ==
    /\ [](\A p \in Callers :
             InvalidAmount(call[p]) => RejectedWith(p, "ErrInvalidAmount"))
    /\ [][\A p \in Callers :
             (Enters(p) /\ InvalidAmount(call'[p])) => StoreUnchanged]_vars

\* C15 witness: a call with a negative amount, an owner without an account
\* and a reference that already belongs to a committed entry has returned
\* InvalidAmount.
C15_Witness ==
    \E p \in Callers :
        /\ call[p].amount < 0 /\ call[p].err = "ErrInvalidAmount"
        /\ call[p].user \notin users
        /\ call[p].prior # NilTxn /\ call[p].prior \in ledger

\* Goroutine p runs a fund or withdraw that is about to look up its owner
\* (its reference was unused at the look-up), and the owner has no row.
OwnerMissing(p) ==
    /\ call[p].op \in {"fund", "withdraw"} /\ call[p].pc = "get_user"
    /\ call[p].user \notin users

\* The next step of p returns ErrUserNotFound and changes no row.
RefusedForOwner(p) ==
    call'[p] # call[p] =>
        /\ call'[p].pc = "done" /\ call'[p].err = "ErrUserNotFound"
        /\ call'[p].txn = NilTxn
        /\ StoreUnchanged

\* The only call issued so far was a fund or withdraw with amount > 0 for an
\* owner without an account, and it has returned: it returned
\* ErrUserNotFound, created no entry and the store is as it was.
OwnerMissingWhenAlone ==
    \A p \in Callers :
        (/\ issued = 1 /\ call[p].pc = "done"
         /\ call[p].op \in {"fund", "withdraw"}
         /\ call[p].amount > 0 /\ call[p].user \notin users)
        => /\ call[p].err = "ErrUserNotFound"
           /\ wallets = [u \in {"A", "B"} |-> 5]
           /\ ledger = SeedLedger

\* C16: fund or withdraw with amount > 0, an unused reference and an owner id
\* that has no account fails with AccountNotFound (ErrUserNotFound), creates
\* no entry and changes no balance.
C16_AccountNotFound ==
    /\ [][\A p \in Callers : OwnerMissing(p) => RefusedForOwner(p)]_vars
    /\ [](OwnerMissingWhenAlone
          /\ \A p \in Callers :
                (call[p].pc = "done" /\ call[p].err = "ErrUserNotFound")
                => \A e \in ledger : e.id # call[p].id)

\* C16 witness: withdraw(C, 3, r1) has returned ErrUserNotFound while a fund
\* of the same reference is in flight or has returned.
C16_Witness ==
    \E p, q \in Callers :
        /\ call[p].pc = "done" /\ call[p].op = "withdraw"
        /\ call[p].user = "C" /\ call[p].err = "ErrUserNotFound"
        /\ call[q].op = "fund" /\ call[q].ref = call[p].ref

\* C17: a transfer with amount > 0, distinct owners and an unused reference,
\* whose source or destination owner does not exist, fails with the same
\* ErrUserNotFound value that fund and withdraw return, creates no entry and
\* changes no balance.  Stated for a transfer that is the only call issued.
C17_TransferAccountNotFound ==
    \A p \in Callers :
        (/\ issued = 1 /\ call[p].pc = "done" /\ call[p].op = "transfer"
         /\ call[p].amount > 0 /\ call[p].user # call[p].to
         /\ (call[p].user \notin users \/ call[p].to \notin users))
        => /\ call[p].err = "ErrUserNotFound"
           /\ wallets = [u \in {"A", "B"} |-> 5]
           /\ ledger = SeedLedger

\* Every request of the scenario has been made and has returned.
ScenarioDone == issued = Len(Scenario) /\ NoCallInFlight

\* The finished reconciliation holds, for account u, a result without
\* mismatch whose stored and calculated balance are both b.
ReportsBalanced(u, b) ==
    \E r \in reader.results :
        /\ r.user = u /\ r.stored = b /\ r.calculated = b
        /\ r.difference = 0 /\ ~r.mismatch
        /\ \A o \in reader.results : o.user = u => o = r

\* C18: from two new accounts A and B with balance 0, the sequential run
\* fund(A, 100, f1); withdraw(A, 20, w1); transfer(A, B, 30, t1) succeeds at
\* every step and ends with balance A = 50 and balance B = 30, and a
\* following reconcile() reports no mismatch and difference 0 for A and B
\* (the amounts of the scenario divided by 100).
C18_Scenario ==
    /\ \A p \in Callers :
          call[p].pc = "done" =>
              /\ call[p].err = Nil
              /\ call[p].txn.id = call[p].id /\ call[p].txn \in ledger
    /\ ScenarioDone => (wallets["A"] = 50 /\ wallets["B"] = 30)
    /\ (ScenarioDone /\ reader.op = "reconcile" /\ reader.pc = "done"
        /\ reader.snapshot = wallets)
       => (ReportsBalanced("A", 50) /\ ReportsBalanced("B", 30))

\* C18 witness: the scenario has run and the reconciliation that followed it
\* has returned its two results.
C18_Witness ==
    /\ ScenarioDone /\ Cardinality(ledger) = 3
    /\ reader.op = "reconcile" /\ reader.pc = "done"
    /\ reader.snapshot = wallets
    /\ Cardinality(reader.results) = 2

\* The step is the loop body of the reconciliation for account u, and it
\* appended a result.
EmitsResult(u) ==
    /\ reader.op = "reconcile" /\ reader.pc = "sum"
    /\ u \in reader.todo /\ u \notin reader'.todo
    /\ reader'.results # reader.results

\* The appended result is the one the claim describes: its calculated
\* balance is the signed sum of the completed entries touching u, its
\* difference is stored minus calculated, its flag is set exactly when the
\* difference is not zero.
ResultAsSpecified(u) ==
    \E r \in reader'.results :
        /\ r \notin reader.results /\ reader'.results = reader.results \cup {r}
        /\ \A o \in reader.results : o.user # u
        /\ r.user = u
        /\ r.stored = reader.snapshot[u]
        /\ r.calculated = LedgerSum(u)
        /\ r.difference = r.stored - r.calculated
        /\ r.mismatch = (r.difference # 0)

\* C19: for every account whose computation succeeds, reconcile() emits one
\* result whose calculated balance is the sum over completed entries touching
\* the account (credit +amount, debit -amount, transfer -amount for the
\* source and +amount for the destination, counted once), whose difference
\* is stored balance minus calculated balance, and whose mismatch flag is
\* true exactly when the difference is nonzero.
C19_ReconcileResult ==
    [][\A u \in UserIds : EmitsResult(u) => ResultAsSpecified(u)]_vars

\* The step belongs to a reconciliation or a history request.
ReadStep == reader' # reader

\* C20: a reconcile() run or a history() call leaves every account balance
\* and the whole set of ledger entries unchanged, also when reconcile finds a
\* mismatch.
C20_ReadOnly == [][ReadStep => StoreUnchanged]_vars

\* C20 witness: a reconciliation has reported a mismatch for an account and
\* the account's balance is still the drifted one.
C20_Witness ==
    /\ reader.op = "reconcile" /\ reader.pc = "done"
    /\ \E r \in reader.results :
          /\ r.mismatch /\ r.stored # r.calculated
          /\ wallets[r.user] = r.stored
          /\ wallets[r.user] # LedgerSum(r.user)

\* A reconciliation has returned after the sum of at least one account failed.
ReconcileReturnedAfterFault ==
    /\ reader.op = "reconcile" /\ reader.pc = "done"
    /\ reader.skipped # {}

\* The step in which such a reconciliation returns.
ReconcileReturnsAfterFault ==
    /\ reader.op = "reconcile" /\ reader.pc = "sum"
    /\ reader'.pc = "done" /\ reader'.skipped # {}

\* The results of reconciliation record r that name account u.
ResultsFor(r, u) == {x \in r.results : x.user = u}

\* The one correct result for account u in a store at rest: the stored
\* balance, the sum of the account's completed entries, their difference
\* and the flag that says whether they differ.
CorrectResult(u) ==
    [user |-> u, stored |-> wallets[u], calculated |-> LedgerSum(u),
     difference |-> wallets[u] - LedgerSum(u),
     mismatch |-> wallets[u] # LedgerSum(u)]

\* C21: if computing the ledger sum fails for one account, reconcile() still
\* returns without error, and what it returns holds no result for that
\* account and the one correct result for every other account it read.
C21_FaultIsolation ==
    [][ReconcileReturnsAfterFault =>
         /\ reader'.err = Nil
         /\ \A u \in DOMAIN reader.snapshot :
               IF u \in reader'.skipped THEN ResultsFor(reader', u) = {}
               ELSE ResultsFor(reader', u) = {CorrectResult(u)}]_vars

\* C21 witness: a reconciliation has returned in which the sum of A failed
\* before the loop reached B, and B's result reports a mismatch.
C21_Witness ==
    /\ ReconcileReturnedAfterFault
    /\ reader.skipped = {"A"}
    /\ \E r \in ResultsFor(reader, "B") : r.mismatch

\* C22: in every reachable committed state, under any interleaving of calls,
\* no two ledger entries carry the same reference.
C22_UniqueReference ==
    \A e \in ledger : \A f \in ledger : e.ref = f.ref => e = f

\* C22 witness: two calls carrying the same reference were in flight
\* together; one has committed its entry, the other has passed the look-up
\* by reference without finding it and stands before its own INSERT.
C22_Witness ==
    \E p \in Callers : \E q \in Callers \ {p} :
        /\ call[p].pc = "done" /\ call[p].err = Nil
        /\ call[p].txn \in ledger /\ call[p].txn.id = call[p].id
        /\ call[q].pc = "create_transaction" /\ call[q].ref = call[p].ref
        /\ call[q].prior = NilTxn

\* Every owner has an account and every account has its owner.
OneAccountEach == DOMAIN wallets = users

\* Goroutine k commits the transaction of its CreateUser call in this step.
CommitsUser(k) ==
    creator[k].pc = "commit_user" /\ creator'[k].pc = "load_user"

\* The step adds the owner named by k's call, who had neither a user row
\* nor an account, together with an account of balance 0, and touches no
\* other owner or account.
AddsOwnerWithAccount(k) ==
    LET m == creator[k].email IN
    /\ m \notin users /\ m \notin DOMAIN wallets
    /\ users' = users \cup {m}
    /\ DOMAIN wallets' = DOMAIN wallets \cup {m}
    /\ wallets'[m] = 0
    /\ \A u \in DOMAIN wallets : wallets'[u] = wallets[u]

\* C23: createUser creates the owner and the owner's account in one atomic
\* unit, the account with balance 0; any other step of a createUser call,
\* failed ones included, leaves owners and accounts as they are; and in every
\* reachable committed state each owner has exactly one account, also when
\* createUser calls run concurrently or fail part-way.
C23_AccountCreation ==
    /\ []OneAccountEach
    /\ [][\A k \in Creators :
            /\ CommitsUser(k) => AddsOwnerWithAccount(k)
            /\ (creator'[k] # creator[k] /\ ~CommitsUser(k)) =>
                  (users' = users /\ wallets' = wallets)]_vars

\* C23 witness: two createUser calls for the new email C ran concurrently;
\* one created owner and account, the other failed at its INSERT.
C23_Witness ==
    /\ "C" \in users /\ "C" \in DOMAIN wallets /\ wallets["C"] = 0
    /\ \E k \in Creators : \E j \in Creators \ {k} :
          /\ creator[k].pc = "done" /\ creator[k].err = Nil
          /\ creator[k].email = "C"
          /\ creator[j].pc = "done" /\ creator[j].email = "C"
          /\ ~creator[j].existed
          /\ creator[j].err = "failed to create user: duplicate key"

\* Goroutine k has returned from a createUser call whose email belonged to
\* a committed user when the call was made.
ReturnedForExistingEmail(k) ==
    creator[k].pc = "done" /\ creator[k].existed

\* C24: createUser with an email that already belongs to an existing user
\* fails with UserAlreadyExists (HTTP status 409) and creates no second user
\* or account.
C24_DuplicateUser ==
    /\ [](\A k \in Creators :
            ReturnedForExistingEmail(k) =>
                /\ creator[k].err = "ErrUserAlreadyExists"
                /\ CreateUserStatus(creator[k].err) = 409)
    /\ [][\A k \in Creators :
            (creator[k].existed /\ creator'[k] # creator[k]
             /\ creator'[k].email = creator[k].email) =>
                (users' = users /\ wallets' = wallets)]_vars

\* C24 witness: owner C was created by one createUser call, and a later call
\* with the same email has been refused.
C24_Witness ==
    \E k \in Creators : \E j \in Creators \ {k} :
        /\ creator[k].pc = "done" /\ creator[k].err = Nil
        /\ creator[k].email = "C"
        /\ ReturnedForExistingEmail(j) /\ creator[j].email = "C"
        /\ creator[j].err = "ErrUserAlreadyExists"

\* The history request is answered by its page query in this step.
HistoryReturns ==
    reader.op = "history" /\ reader.pc = "find" /\ reader'.pc = "done"

\* The page number and page size the claim prescribes for given arguments.
PageUsed(page) == IF page < 1 THEN 1 ELSE page
PageSizeUsed(pageSize) ==
    IF pageSize < 1 THEN 10 ELSE IF pageSize > 100 THEN 100 ELSE pageSize

\* The entries of the ledger that touch owner u: as primary owner, as
\* transfer source or as transfer destination.
Touching(u) == {e \in ledger : e.user = u \/ e.from = u \/ e.to = u}

\* Sequence rows holds entries of S only, each once, newest first.
NewestFirstIn(rows, S) ==
    /\ \A i \in 1..Len(rows) : rows[i] \in S
    /\ \A i \in 1..Len(rows) : \A j \in 1..Len(rows) :
          i < j => rows[i].at > rows[j].at

\* Number of entries of S newer than entry e.
NewerThan(e, S) == Cardinality({f \in S : f.at > e.at})

\* Sequence rows is the part of S, ordered newest first, that starts after
\* the first skip entries and holds at most size entries.
IsPage(rows, S, skip, size) ==
    /\ NewestFirstIn(rows, S)
    /\ Len(rows) <= size
    /\ \A i \in 1..Len(rows) : NewerThan(rows[i], S) = skip + i - 1
    /\ \A e \in S :
          (NewerThan(e, S) >= skip /\ NewerThan(e, S) < skip + size) =>
              \E i \in 1..Len(rows) : rows[i] = e

\* C25: history(owner, page, pageSize) uses page 1 when page < 1, page size
\* 10 when pageSize < 1, page size 100 when pageSize > 100, otherwise the
\* given values, and returns at most that many entries of the owner's
\* history, starting at offset (page - 1) * pageSize.
C25_HistoryPage ==
    [][HistoryReturns =>
         IsPage(reader'.rows, Touching(reader.user),
                (PageUsed(reader.page) - 1) * PageSizeUsed(reader.pageSize),
                PageSizeUsed(reader.pageSize))]_vars

\* No entry of S lies, by age, between two neighbours of sequence rows.
Gapless(rows, S) ==
    \A i \in 1..(Len(rows) - 1) :
        NewerThan(rows[i + 1], S) = NewerThan(rows[i], S) + 1

\* C26: history(owner, ...) returns entries in which the owner is primary
\* owner, transfer source or transfer destination, and only those, ordered
\* newest first with none left out between two returned entries; a first
\* page as large as the selection holds all of them; totalCount is the
\* number of all such entries whatever page is requested.
C26_HistoryContents ==
    [][HistoryReturns =>
         /\ NewestFirstIn(reader'.rows, Touching(reader.user))
         /\ Gapless(reader'.rows, Touching(reader.user))
         /\ reader'.total = Cardinality(Touching(reader.user))
         /\ (PageUsed(reader.page) = 1
              /\ PageSizeUsed(reader.pageSize) >= Cardinality(Touching(reader.user)))
             => Len(reader'.rows) = Cardinality(Touching(reader.user))]_vars

\* C26 witness: B's history, page 2 with page size 1, has returned: the
\* total counts B's own credit and a transfer that A sent to B, and the page
\* holds the older of the two.
C26_Witness ==
    /\ reader.op = "history" /\ reader.pc = "done" /\ reader.user = "B"
    /\ reader.page = 2 /\ reader.pageSize = 1
    /\ reader.total = 2 /\ Len(reader.rows) = 1
    /\ reader.rows[1].ref = "s2"
    /\ \E e \in ledger :
          /\ e.type = "transfer" /\ e.user = "A" /\ e.to = "B"
          /\ e.at > reader.rows[1].at

\* A statement of goroutine p fails in this step because its transaction
\* conflicts with a concurrent writer.
FailsOnConflict(p) ==
    /\ call[p].pc \in {"create_transaction", "update_balance", "update_recipient",
                       "commit"}
    /\ InWaitCycle(p)
    /\ call'[p] # call[p]

\* The call of p starts over from its balance read, without a result yet.
RetriesFromRead(p) ==
    /\ call'[p].pc = "get_wallet" /\ call'[p].err = Nil
    /\ call'[p].ref = call[p].ref /\ call'[p].op = call[p].op

\* C27: when the atomic unit of an operation fails because of a conflicting
\* concurrent writer, the operation is retried from the balance read (a
\* bounded number of times) instead of failing at the first conflict.
C27_BoundedRetry ==
    [][\A p \in Callers : FailsOnConflict(p) => RetriesFromRead(p)]_vars

\* Goroutine p runs a transfer that has locked its first account and has
\* its second account still to lock.
LockedFirst(p) == call[p].op = "transfer" /\ call[p].pc = "update_recipient"

\* C28: every transfer acquires its two accounts in one fixed total order,
\* whatever its direction: no two transfers in flight hold, as their first
\* account, the account the other one locks second.
C28_LockOrder ==
    \A p \in Callers : \A q \in Callers \ {p} :
        ~(/\ LockedFirst(p) /\ LockedFirst(q)
          /\ HoldsWallet(p, call[q].to) /\ HoldsWallet(q, call[p].to))

\* The step is the commit of an op call by goroutine p.
Commits(p, op) ==
    /\ call[p].op = op /\ call[p].pc = "commit"
    /\ call'[p].pc = "done" /\ call'[p].err = Nil

\* The step adds exactly one entry, of the given kind, completed, carrying
\* the owner, amount and reference of p's call.
AddsOneEntry(p, type) ==
    \E e \in ledger' :
        /\ e \notin ledger /\ ledger' = ledger \cup {e}
        /\ e.type = type /\ e.status = "completed"
        /\ e.user = call[p].user /\ e.amount = call[p].amount
        /\ e.ref = call[p].ref

\* Goroutine p runs a withdrawal whose reference was unused and whose owner
\* exists, and takes its balance read and funds check in this step.
WithdrawChecksFunds(p) ==
    /\ call[p].op = "withdraw" /\ call[p].pc = "get_wallet"
    /\ call'[p] # call[p]

\* C29: run alone with a reference never used before, a successful fund sets
\* the balance to balance + amount and a successful withdraw sets it to
\* balance - amount, each creating exactly one Completed entry; a withdraw
\* succeeds exactly when balance >= amount (amount = balance included).
C29_FundWithdrawEffect ==
    /\ [][\A p \in Callers :
            /\ Commits(p, "fund") =>
                  /\ wallets'[call[p].user] = wallets[call[p].user] + call[p].amount
                  /\ AddsOneEntry(p, "credit")
            /\ Commits(p, "withdraw") =>
                  /\ wallets'[call[p].user] = wallets[call[p].user] - call[p].amount
                  /\ AddsOneEntry(p, "debit")
            /\ WithdrawChecksFunds(p) =>
                  IF wallets[call[p].user] >= call[p].amount
                  THEN call'[p].pc = "create_transaction"
                  ELSE call'[p].pc = "done"
                       /\ call'[p].err = "ErrInsufficientFunds"]_vars
    /\ [](\A p \in Callers :
            (call[p].op = "withdraw" /\ call[p].pc = "done" /\ call[p].err # Nil)
                => call[p].err = "ErrInsufficientFunds")

\* C30: the ledger only grows: an entry that exists in one state exists,
\* with every field unchanged, in all later states; no operation removes or
\* alters an entry.
C30_AppendOnly ==
    [][\A e \in ledger : e \in ledger']_vars

\* C30 witness: two calls have each committed an entry for the same owner,
\* and the entries that were there before are still there.
C30_Witness ==
    /\ SeedLedger \subseteq ledger
    /\ \E e \in ledger \ SeedLedger : \E f \in ledger \ SeedLedger :
          e # f /\ e.user = f.user /\ e.at < f.at

\* C31: every ledger entry created by fund, withdraw or transfer has status
\* Completed in every committed state in which it exists; no committed state
\* holds a Pending or Failed entry.
C31_AllCompleted == \A e \in ledger : e.status = "completed"

\* C31 witness: a withdrawal and a transfer have each committed an entry.
C31_Witness ==
    /\ \E e \in ledger : e.id > 0 /\ e.type = "debit"
    /\ \E e \in ledger : e.id > 0 /\ e.type = "transfer"

\* Entry e has the shape its kind requires.
WellFormed(e) ==
    /\ e.amount > 0
    /\ e.type = "transfer" =>
          /\ e.from # Nil /\ e.to # Nil
          /\ e.from # e.to
          /\ e.user = e.from
    /\ e.type \in {"credit", "debit"} => (e.from = Nil /\ e.to = Nil)

\* C32: in every reachable state, every Transfer entry has a source and a
\* destination, the two are distinct and its owner is the source; every
\* Credit or Debit entry has neither; and every entry has amount > 0.
C32_WellFormed == \A e \in ledger : WellFormed(e)

\* C32 witness: a transfer has committed its entry, and another call of the
\* run was a transfer to the sender itself or carried an amount <= 0.
C32_Witness ==
    /\ \E e \in ledger : e.id > 0 /\ e.type = "transfer"
    /\ \E p \in Callers :
          call[p].pc = "done"
          /\ call[p].err \in {"ErrSameUser", "ErrInvalidAmount"}

\* Account u is one that the call of goroutine p names: its owner, or the
\* destination of its transfer.
NamedBy(p, u) ==
    \/ u = call[p].user
    \/ call[p].op = "transfer" /\ u = call[p].to

\* C33: a step of a fund or withdraw on account A leaves the balance of
\* every account other than A unchanged, a step of a transfer from A to B
\* that of every account other than A and B; and balances change only in a
\* step in which the call returns without error, so a call that returns an
\* error has left every balance unchanged.
C33_Frame ==
    [][\A p \in Callers :
          call'[p] # call[p] =>
              /\ \A u \in DOMAIN wallets :
                    ~NamedBy(p, u) => wallets'[u] = wallets[u]
              /\ wallets' # wallets =>
                    (call'[p].pc = "done" /\ call'[p].err = Nil)
              /\ call'[p].err # Nil => wallets' = wallets]_vars

\* C33 witness: with three accounts, a transfer from A to B has committed,
\* C still holds the 0 it was created with, and another call has returned
\* an error.
C33_Witness ==
    /\ "C" \in DOMAIN wallets /\ wallets["C"] = 0
    /\ \E p \in Callers : \E q \in Callers \ {p} :
          /\ call[p].pc = "done" /\ call[p].err = Nil
          /\ call[p].op = "transfer" /\ call[p].user = "A" /\ call[p].to = "B"
          /\ call[p].txn.id = call[p].id
          /\ call[q].pc = "done" /\ call[q].err # Nil

\* The call of p carries a reference that a committed entry already used,
\* and that entry is of another kind, of another amount or of another owner
\* than the call.
ReusesReference(p) ==
    /\ call[p].pc # "idle" /\ call[p].prior # NilTxn
    /\ \/ call[p].prior.type # KindOf(call[p])
       \/ call[p].prior.amount # call[p].amount
       \/ call[p].prior.user # call[p].user

\* The arguments of the call of p pass the checks made before the store is
\* touched.
PassesArgumentChecks(p) ==
    /\ call[p].amount > 0
    /\ call[p].op = "transfer" => call[p].user # call[p].to

\* The call of p has returned the entry that already carried its reference.
ReturnsPrior(p) == call[p].err = Nil /\ call[p].txn = call[p].prior

\* C34 (as stated): every fund, withdraw or transfer call whose reference
\* is already used by an entry of a different kind, amount or account
\* returns that entry successfully.
C34_AlwaysShortCircuits ==
    \A p \in Callers :
        (ReusesReference(p) /\ call[p].pc = "done") => ReturnsPrior(p)

\* C34 (amended): a call with amount > 0 (and, for a transfer, distinct
\* source and destination) whose reference is already used by an entry of a
\* different kind, amount or account returns that entry, unchanged and
\* without error, at its look-up of the reference, and no step of the call
\* changes a balance or the ledger.
C34_ValidReuseShortCircuits ==
    /\ [](\A p \in Callers :
            (ReusesReference(p) /\ PassesArgumentChecks(p)) =>
                /\ call[p].pc \in {"get_by_reference", "done"}
                /\ call[p].pc = "done" => ReturnsPrior(p))
    /\ [][\A p \in Callers :
            (ReusesReference(p) /\ PassesArgumentChecks(p) /\ call'[p] # call[p]
             /\ call'[p].id = call[p].id) =>
                /\ wallets' = wallets /\ ledger' = ledger
                /\ call'[p].pc = "done" /\ call'[p].txn \in ledger]_vars

\* C34 witness: a withdrawal of 7 by B has returned, without error, the
\* credit of 3 to A that carried its reference.
C34_Witness ==
    \E p \in Callers :
        /\ call[p].pc = "done" /\ call[p].op = "withdraw"
        /\ call[p].user = "B" /\ call[p].amount = 7
        /\ call[p].err = Nil /\ call[p].txn = call[p].prior
        /\ call[p].txn.type = "credit" /\ call[p].txn.user = "A"
        /\ call[p].txn.amount = 3 /\ call[p].txn.ref = call[p].ref
        /\ wallets["B"] = 5

\* The errors of the existence checks and of the funds check.
ExistenceOrFundsErrors ==
    {"ErrUserNotFound", "sender not found", "recipient not found",
     "ErrInsufficientFunds"}

\* The call of p has returned and carried a reference already in use.
ReturnedOnUsedReference(p) ==
    call[p].pc = "done" /\ call[p].amount > 0 /\ call[p].prior # NilTxn

\* C35 (as stated): a fund, withdraw or transfer call with amount > 0 whose
\* reference is already in use returns the existing entry without error,
\* whatever the owner and the balance; and a call that returns
\* AccountNotFound or InsufficientFunds carried an unused reference.
C35_IdempotencyFirst ==
    \A p \in Callers :
        /\ ReturnedOnUsedReference(p) => ReturnsPrior(p)
        /\ (call[p].pc = "done" /\ call[p].err \in ExistenceOrFundsErrors) =>
               call[p].prior = NilTxn

\* C35 (amended): the same for a fund, a withdraw, and a transfer whose
\* source and destination differ: such a call returns the existing entry
\* even when its owner has no account or its balance is below the amount.
C35_IdempotencyBeforeStoreChecks ==
    \A p \in Callers :
        /\ (ReturnedOnUsedReference(p) /\ call[p].user # call[p].to) =>
               ReturnsPrior(p)
        /\ (call[p].pc = "done" /\ call[p].err \in ExistenceOrFundsErrors) =>
               call[p].prior = NilTxn

\* C35 witness: a withdrawal of 7 by C, who has no account, carried the
\* reference of a committed entry and has returned that entry without error.
C35_Witness ==
    \E p \in Callers :
        /\ ReturnedOnUsedReference(p) /\ ReturnsPrior(p)
        /\ call[p].op = "withdraw" /\ call[p].user = "C" /\ call[p].amount = 7
        /\ "C" \notin users

\* The errors with which a call is refused.
RefusalErrors ==
    {"ErrInvalidAmount", "ErrSameUser"} \cup ExistenceOrFundsErrors

\* The call of p was the last one made and has been refused.
LastCallRefused(p) ==
    /\ call[p].pc = "done" /\ call[p].id = issued
    /\ call[p].err \in RefusalErrors

\* C36 (as stated): after a fund, withdraw or transfer has returned
\* InvalidAmount, SameAccount, AccountNotFound or InsufficientFunds for
\* reference r, no entry with reference r exists.
C36_RefusedLeavesNoEntry ==
    \A p \in Callers :
        LastCallRefused(p) => FindByReference(call[p].ref) = {}

\* The step is the successful return of the call of q, which carries the
\* reference of the call that p made just before and that was refused when
\* no entry carried that reference.
ReturnsAfterRefused(p, q) ==
    /\ call[p].pc = "done" /\ call[p].err \in RefusalErrors
    /\ call[p].prior = NilTxn
    /\ call[q].ref = call[p].ref /\ call[q].id = call[p].id + 1
    /\ call[q].pc \notin {"idle", "done"}
    /\ call'[q].pc = "done" /\ call'[q].err = Nil

\* C36 (amended): a refused call creates no entry, so when its reference
\* was unused at the time of the call it is still unused afterwards; and
\* the next call with that reference, when it succeeds, is applied and not
\* treated as a duplicate: it returns at its commit, with its own new entry
\* added to the ledger and the balance of its owner changed by the amount.
C36_RefusedDoesNotConsume ==
    /\ [](\A p \in Callers :
            (LastCallRefused(p) /\ call[p].prior = NilTxn) =>
                FindByReference(call[p].ref) = {})
    /\ [][\A p \in Callers : \A q \in Callers \ {p} :
            ReturnsAfterRefused(p, q) =>
                /\ call[q].pc = "commit"
                /\ call'[q].txn.id = call[q].id
                /\ ledger' = ledger \cup {call'[q].txn}
                /\ call'[q].txn \notin ledger
                /\ wallets'[call[q].user] =
                      IF call[q].op = "fund"
                      THEN wallets[call[q].user] + call[q].amount
                      ELSE wallets[call[q].user] - call[q].amount]_vars

\* C36 witness: a withdrawal of 7 from B was refused for insufficient
\* funds, and the next call, a withdrawal of 3 from B with the same
\* reference, has committed its own entry and taken 3 from the balance.
C36_Witness ==
    \E p \in Callers : \E q \in Callers \ {p} :
        /\ call[p].pc = "done" /\ call[p].err = "ErrInsufficientFunds"
        /\ call[p].op = "withdraw" /\ call[p].user = "B"
        /\ call[q].pc = "done" /\ call[q].err = Nil
        /\ call[q].op = "withdraw" /\ call[q].user = "B" /\ call[q].amount = 3
        /\ call[q].ref = call[p].ref /\ call[q].id = call[p].id + 1
        /\ call[q].txn.id = call[q].id /\ call[q].txn \in ledger
        /\ wallets["B"] = 2

\* Entry e is the one that the request of call c describes.
EntryOfCall(e, c) ==
    /\ e.type = KindOf(c)
    /\ e.amount = c.amount /\ e.ref = c.ref
    /\ e.status = "completed"
    /\ e.user = c.user
    /\ IF c.op = "transfer" THEN e.from = c.user /\ e.to = c.to
       ELSE e.from = Nil /\ e.to = Nil

\* C37: a fund, withdraw or transfer that returns successfully from its own
\* commit (not as a duplicate) returns an entry of kind Credit, Debit or
\* Transfer respectively, with the amount, reference and owner of the call,
\* status Completed and, for a transfer, the source and destination of the
\* call; and in every later state the look-up of the reference of a call
\* that returned successfully finds exactly the entry it returned.
C37_ReturnedEntry ==
    /\ [][\A p \in Callers :
            (call[p].pc = "commit" /\ call'[p].pc = "done"
             /\ call'[p].err = Nil) =>
                /\ EntryOfCall(call'[p].txn, call[p])
                /\ call'[p].txn.id = call[p].id]_vars
    /\ [](\A p \in Callers :
            (call[p].pc = "done" /\ call[p].err = Nil /\ call[p].amount > 0) =>
                FindByReference(call[p].ref) = {call[p].txn})

\* C37 witness: a transfer of 3 from A to B has returned its own entry,
\* which is the one the ledger holds under its reference, and another call
\* has returned its own Credit or Debit entry.
C37_Witness ==
    \E p \in Callers : \E q \in Callers \ {p} :
        /\ call[p].pc = "done" /\ call[p].err = Nil
        /\ call[p].op = "transfer" /\ call[p].txn.id = call[p].id
        /\ call[p].txn.type = "transfer"
        /\ call[p].txn.from = "A" /\ call[p].txn.to = "B"
        /\ FindByReference(call[p].ref) = {call[p].txn}
        /\ call[q].pc = "done" /\ call[q].err = Nil
        /\ call[q].txn.id = call[q].id
        /\ call[q].txn.type \in {"credit", "debit"}

\* C38: a reconciliation that overlaps committing calls reports a mismatch
\* for an account only if the stored balance of that account differed from
\* the sum of its entries in some committed state since the run began.
C38_MismatchOnlyIfDrifted ==
    reader.op = "reconcile" =>
        \A res \in reader.results :
            res.mismatch => res.user \in reader.drift

\* C39: the commit of a fund stores, for the owner, the balance the call
\* read plus the amount, and the commit of a transfer stores that for the
\* destination, as integers: the credited balance is never a value that
\* wrapped around the range of the type.
C39_NoWrapOnCredit ==
    [][\A p \in Callers :
          (call[p].pc = "commit" /\ call'[p].pc = "done") =>
              /\ call[p].op = "fund" =>
                    wallets'[call[p].user] = call[p].fromBal + call[p].amount
              /\ call[p].op = "transfer" =>
                    wallets'[call[p].to] = call[p].toBal + call[p].amount]_vars

\* C40: with funds and withdrawals only, every call that was made eventually
\* returns, a result or an error: no call stays forever at a statement that
\* waits for the reference of an uncommitted entry or for a wallet row.
C40_SingleAccountReturns ==
    \A p \in Callers :
        (call[p].op \in {"fund", "withdraw"} /\ call[p].pc # "done")
            ~> (call[p].pc = "done")

\* C40 witness: a fund or withdrawal waits for the wallet row that another
\* one, with a different reference, has updated and not yet committed.
C40_Witness ==
    \E p \in Callers : \E q \in Callers \ {p} :
        /\ call[p].op \in {"fund", "withdraw"} /\ call[q].op \in {"fund", "withdraw"}
        /\ call[p].pc = "update_balance" /\ q \in Blockers(p)
        /\ call[q].pc = "commit" /\ call[q].user = call[p].user
        /\ call[q].ref # call[p].ref

====
